---- MODULE Spec2Model ----
(***************************************************************************)
(* mmonit-hub: the multi-tenant aggregation pipeline.                      *)
(*                                                                         *)
(*   auth_utils.py            require_auth_user, get_user_tenants          *)
(*   data_fetcher.py          query_mmonit_data, fetch_healthchecks_for_   *)
(*                            tenant, the Healthchecks cache               *)
(*   mmonit_hub/__init__.py   the Flask application (create_app) and its   *)
(*                            own query_mmonit_data                        *)
(*   mmonit-hub.py            the BaseHTTPRequestHandler server (do_GET)   *)
(*                                                                         *)
(* Modelling conventions.  A Python dict is a TLA+ function whose domain   *)
(* is the set of keys present, so d.get(k, default) is Get(d, k, default). *)
(* A formatted string f"a:{x}" is the tuple of its parts <<"a", x>>.  An   *)
(* optional value is <<>> (None) or <<v>>.  An outbound HTTP call is an    *)
(* action whose response is drawn from a finite set of outcomes.           *)
(***************************************************************************)
EXTENDS Integers, Sequences, FiniteSets, TLC

VARIABLES
    entry,          \* which entry point serves the request
    cfg,            \* the loaded configuration (its "users" part)
    req,            \* the inbound request: Authorization header / login form
    session_user,   \* Flask-Login: the user id stored in the session, <<>> if none
    identity,       \* the identity the endpoint resolved for the caller, <<>> if none
    http_status,    \* status of the inbound response, 0 while none was sent
    envelope,       \* the JSON payload written by the data endpoint, <<>> if none
    impl,           \* which query_mmonit_data runs (the module that defines it)
    instances,      \* `instances` argument of query_mmonit_data
    allowed,        \* allowed_tenants argument: <<>> is None, <<list>> is a list
    pc,             \* position inside the request / aggregation pass
    idx,            \* index of the instance the loop is at
    hosts,          \* `hosts` of the current instance
    hosts_type,     \* the Python type of `hosts`: "list", or "dict" (then `hosts`
                    \* holds the keys, which is what iterating it yields)
    hidx,           \* index of the host whose detail is fetched next
    error,          \* `error` of the current instance: <<>> is None
    pidx,           \* fetch_healthchecks_for_tenant: index of the project
    merged,         \* fetch_healthchecks_for_tenant: `merged`
    hc_hosts,       \* `hc_hosts` of the current instance
    cache,          \* _HEALTHCHECK_CACHE
    prune_log,      \* the "[HC] pruned n stale check(s)" lines printed
    result,         \* `result` of query_mmonit_data
    raised,         \* exception that left query_mmonit_data: <<>> is none
    calls,          \* outbound requests issued for the current instance
    own,            \* what each of these requests did (its outcome), in call order
    session,        \* requests.Session() objects made for the current instance, and
                    \* the one each request went through (0: requests.get)
    detail_log,     \* outcome kind of each detail call of the current instance
    list_n,         \* number of records the host-list call returned, -1 if none
    hc_log,         \* per project of the current instance: what its request did
    thr,            \* per thread: its locals inside fetch_healthchecks_for_tenant
    lock,           \* _HEALTHCHECK_CACHE_LOCK: the thread that holds it (0: none), how often
    hist,           \* per cache key: the id sets written to it, oldest first
    cycles          \* calls of fetch_healthchecks_for_tenant made by the threads

vars == << entry, cfg, req, session_user, identity, http_status, envelope, impl, instances,
           allowed,
           pc, idx, hosts, hosts_type, hidx, error, pidx, merged, hc_hosts, cache,
           prune_log, result, raised, calls, own, session, detail_log, list_n, hc_log,
           thr, lock, hist, cycles >>

-----------------------------------------------------------------------------
(* Bounds of the model.                                                    *)

\* Largest number of records a host-list response carries.
MaxHosts == 2

\* Largest number of fetch_healthchecks_for_tenant calls the threads make.
MaxCycles == 2

-----------------------------------------------------------------------------
(* Python helpers.                                                         *)

\* dict.get(k, default)
Get(d, k, default) == IF k \in DOMAIN d THEN d[k] ELSE default

\* dict.update(upd) / item assignment: keys of upd win
Update(d, upd) == upd @@ d

\* membership in a list
InList(x, s) == \E i \in 1..Len(s) : s[i] = x

None == <<>>
Some(v) == <<v>>

RECURSIVE Concat(_)
\* flattening of a sequence of sequences (list.extend in a loop)
Concat(ss) == IF ss = <<>> THEN <<>> ELSE Head(ss) \o Concat(Tail(ss))

-----------------------------------------------------------------------------
(* auth_utils.py (the same functions are methods of MMonitHandler in       *)
(* mmonit-hub.py and module functions of mmonit_hub/__init__.py).          *)

\* A password hash "salt$digest" is the sequence of its "$"-separated fields;
\* the PBKDF2 digest of (password, salt) is the field <<password, salt>>, so
\* two digests are equal exactly when password and salt are.
hash_password(password, salt) == << <<salt>>, <<password, salt>> >>

\* A stored value that is no hash at all (no "$" in it).
PlainText(s) == << <<s>> >>

verify_password(password, password_hash) ==
    IF Len(password_hash) < 2 THEN FALSE          \* '$' not in password_hash
    ELSE IF Len(password_hash) # 2 THEN FALSE     \* unpacking raises: except
    ELSE hash_password(password, password_hash[1][1]) = password_hash

\* Index of the first user of the list whose username is `username`; 0 if
\* none (the for loop of get_user_tenants).
FirstUser(users, username) ==
    LET m == { i \in 1..Len(users) : users[i].username = username }
    IN  IF m = {} THEN 0 ELSE CHOOSE i \in m : \A j \in m : i <= j

\* Index of the first user of that name whose password hash verifies
\* `password`; 0 if none (the for loop of require_auth_user, which goes on to
\* the next entry of the name when the password does not verify).
VerifiedUser(users, username, password) ==
    LET m == { i \in 1..Len(users) :
                 /\ users[i].username = username
                 /\ verify_password(password, users[i].password) }
    IN  IF m = {} THEN 0 ELSE CHOOSE i \in m : \A j \in m : i <= j

\* headers: [kind |-> "none" | "other" | "basic", creds |-> <<>> | <<u, p>>];
\* creds = <<>> is a Basic header that does not decode to "user:password".
require_auth_user(headers, config) ==
    IF "users" \notin DOMAIN config \/ config.users = <<>> THEN Some("anonymous")
    ELSE IF headers.kind # "basic" THEN None
    ELSE IF headers.creds = <<>> THEN None
    ELSE LET username == headers.creds[1]
             password == headers.creds[2]
         IN  IF VerifiedUser(config.users, username, password) # 0
             THEN Some(username) ELSE None

get_user_tenants(username, config) ==
    IF username = "anonymous" \/ "users" \notin DOMAIN config THEN <<"*">>
    ELSE LET i == FirstUser(config.users, username)
         IN  IF i = 0 THEN <<>> ELSE Get(config.users[i], "tenants", <<>>)

-----------------------------------------------------------------------------
(* mmonit_hub/__init__.py: create_app, the Flask-Login application.        *)

\* cfg.get("users", [])
ConfigUsers(config) == Get(config, "users", <<>>)

\* users_map: a dict built in list order, so the last entry of a username wins.
users_map(config) ==
    LET users == ConfigUsers(config)
        names == { users[i].username : i \in 1..Len(users) }
        Last(n) == CHOOSE i \in 1..Len(users) :
                      /\ users[i].username = n
                      /\ \A j \in 1..Len(users) : users[j].username = n => j <= i
    IN  [ n \in names |->
            [ id            |-> n,
              password_hash |-> users[Last(n)].password,
              tenants       |-> Get(users[Last(n)], "tenants", <<>>) ] ]

\* load_user: users_map.get(user_id)
load_user(config, user_id) ==
    IF user_id \in DOMAIN users_map(config) THEN Some(users_map(config)[user_id])
    ELSE None

\* @login_required: the view runs only for an authenticated current_user,
\* that is when the session names a user that load_user still finds.
current_user(config, user_id) ==
    IF user_id = None THEN None ELSE load_user(config, user_id[1])

\* api_data: allowed = current_user.tenants or ["*"]
api_data_allowed(user) == IF user.tenants = <<>> THEN <<"*">> ELSE user.tenants

-----------------------------------------------------------------------------
(* data_fetcher.py: the Healthchecks side (pure parts).                    *)

\* str.lower() / str.upper() on the status vocabulary of the checks API.
Lower(s) ==
    CASE s = "UP" -> "up" [] s = "DOWN" -> "down" [] s = "Paused" -> "paused"
      [] OTHER -> s

Upper(s) ==
    CASE s = "up" -> "UP" [] s = "down" -> "DOWN" [] s = "grace" -> "GRACE"
      [] s = "paused" -> "PAUSED" [] s = "new" -> "NEW"
      [] s = "weird" -> "WEIRD" [] OTHER -> s

\* str.rstrip("/") on the API bases of the configuration.
RStripSlash(s) == CASE s = "https://hc.example/" -> "https://hc.example" [] OTHER -> s

\* x or default, for strings
OrStr(x, default) == IF x = "" THEN default ELSE x

\* _hc_status_to_led with a status it does not know reported as OK.
_hc_status_to_led_UnknownOk(status) ==
    LET s == Lower(status)
    IN  IF s = "up" THEN 2
        ELSE IF s \in {"grace", "paused", "new"} THEN 1
        ELSE IF s = "down" THEN 0
        ELSE 2

_hc_status_to_led(status) ==
    LET s == Lower(status)
    IN  IF s = "up" THEN 2
        ELSE IF s \in {"grace", "paused", "new"} THEN 1
        ELSE IF s = "down" THEN 0
        ELSE 1

\* (proj.get("api_base") or "https://healthchecks.io").rstrip("/")
ApiBase(proj) == RStripSlash(OrStr(Get(proj, "api_base", ""), "https://healthchecks.io"))

\* str.strip() on the names of the configuration.
Strip(s) == CASE s = " A " -> "A" [] s = "  " -> "" [] OTHER -> s

\* Position of a tag in the lexicographic order of the configured tags.
TagRank(t) == CASE t = "prod" -> 1 [] t = "web" -> 2 [] OTHER -> 3

RECURSIVE InsertTag(_, _)
InsertTag(t, sorted_tags) ==
    IF sorted_tags = <<>> THEN << t >>
    ELSE IF TagRank(t) <= TagRank(Head(sorted_tags)) THEN << t >> \o sorted_tags
    ELSE << Head(sorted_tags) >> \o InsertTag(t, Tail(sorted_tags))

RECURSIVE SortedTags(_)
\* sorted(project.get("tags") or [])
SortedTags(tags) ==
    IF tags = <<>> THEN <<>> ELSE InsertTag(Head(tags), SortedTags(Tail(tags)))

\* The first 16 hex digits of a SHA-256 are modelled as the hashed material
\* itself: equal digests exactly for equal material.
_project_cache_key(instance, project, api_base) ==
    LET tenant_name    == OrStr(Strip(OrStr(Get(instance, "name", ""), "tenant")), "tenant")
        project_label  == OrStr(Strip(Get(project, "name", "")), "project")
        tags_part      == SortedTags(Get(project, "tags", <<>>))
        include_paused == IF Get(project, "include_paused", FALSE) THEN "1" ELSE "0"
        api_key        == Get(project, "api_key", "")
        digest_material == << api_base, project_label, tags_part, include_paused >>
        digest         == << api_key, digest_material >>
    IN  << tenant_name, digest >>

\* The id under which _update_healthchecks_cache files a host.
HostIndexId(host) ==
    IF "id" \notin DOMAIN host \/ host.id = <<>>
    THEN << "name", OrStr(Get(host, "hostname", ""), "unnamed") >>
    ELSE host.id

RECURSIVE HostIndex(_)
\* host_index: later hosts of the list overwrite earlier ones of the same id
HostIndex(hs) ==
    IF hs = <<>> THEN << >>
    ELSE LET h == hs[Len(hs)]
         IN  (HostIndexId(h) :> h) @@ HostIndex(SubSeq(hs, 1, Len(hs) - 1))

\* removed_ids taken the other way round: the ids that are new.
RemovedIds_Added(c, cache_key, hs) ==
    LET previous == IF cache_key \in DOMAIN c THEN c[cache_key] ELSE << >>
    IN  DOMAIN HostIndex(hs) \ DOMAIN previous

\* removed_ids of _update_healthchecks_cache
RemovedIds(c, cache_key, hs) ==
    LET previous == IF cache_key \in DOMAIN c THEN c[cache_key] ELSE << >>
    IN  DOMAIN previous \ DOMAIN HostIndex(hs)

\* _HEALTHCHECK_CACHE after _update_healthchecks_cache(cache_key, hosts, _)
_update_healthchecks_cache(c, cache_key, hs) ==
    (cache_key :> HostIndex(hs)) @@ c

\* The lines _update_healthchecks_cache prints: one per call that pruned.
PruneLogAfter(log, c, cache_key, hs) ==
    IF RemovedIds(c, cache_key, hs) # {}
    THEN Append(log, [key |-> cache_key, removed |-> RemovedIds(c, cache_key, hs)])
    ELSE log

\* The synthetic host appended when a project's request raises.
ProjectErrorHost(proj, api_base, e) ==
    [ hostname |-> << "[Healthchecks] ", Get(proj, "name", "Project") >>,
      led |-> 0, cpu |-> 0, mem |-> 0, events |-> 0, heartbeat |-> FALSE,
      id |-> << "hcproj", Get(proj, "name", "project") >>,
      os_name |-> "Healthchecks",
      os_release |-> IF Get(proj, "name", "") = "" THEN << >>
                     ELSE << Get(proj, "name", "") >>,
      filesystems |-> << >>,
      issues |-> << [ name |-> "Healthchecks API error", type |-> "HTTP",
                      status |-> e, led |-> 0 ] >>,
      service_count |-> 0,
      service_names |-> << "healthchecks-api-error" >>,
      services_detail |-> << >>,
      source |-> "healthchecks",
      css_class |-> "healthchecks",
      view_url |-> << api_base, "/projects" >> ]

\* The host a check is mapped to (the body of the loop over payload checks).
\* A whitespace-separated tags string is the sequence of its tokens.
CheckHost(c, api_base) ==
    LET status     == Lower(OrStr(Get(c, "status", ""), "new"))
        led        == _hc_status_to_led(status)
        name       == OrStr(Get(c, "name", ""), OrStr(Get(c, "slug", ""), "Unnamed Check"))
        tag_list   == Get(c, "tags", <<>>)
        unique_key == Get(c, "unique_key", "")
        TagRow(t)  == [ name |-> t, type |-> "Tag",
                        status |-> IF status = "up" THEN "OK" ELSE Upper(status),
                        led |-> led ]
    IN  [ hostname |-> << name >>,
          led |-> led, cpu |-> 0, mem |-> 0, events |-> 0,
          heartbeat |-> status \in {"up", "grace"},
          id |-> << "hc", OrStr(Get(c, "id", ""), OrStr(unique_key, name)) >>,
          os_name |-> "Healthchecks",
          os_release |-> tag_list,
          filesystems |-> << >>,
          issues |-> IF status = "up" THEN << >>
                     ELSE << [ name |-> "Healthcheck", type |-> "Ping",
                               status |-> Upper(status), led |-> led ] >>,
          service_count |-> Len(tag_list),
          service_names |-> tag_list,
          services_detail |-> [ i \in 1..Len(tag_list) |-> TagRow(tag_list[i]) ],
          source |-> "healthchecks",
          css_class |-> "healthchecks",
          view_url |-> IF unique_key # "" THEN << api_base, "/checks/", unique_key >>
                       ELSE << api_base >> ]

\* SkipsCheck without the opt-in: a paused check is always skipped.
SkipsCheck_Always(c, include_paused) ==
    Lower(OrStr(Get(c, "status", ""), "new")) = "paused"

\* Whether the loop skips a check: paused and the project did not opt in.
SkipsCheck(c, include_paused) ==
    Lower(OrStr(Get(c, "status", ""), "new")) = "paused" /\ ~include_paused

RECURSIVE ProjectHosts(_, _, _)
\* project_hosts built from payload.get("checks", [])
ProjectHosts(checks, include_paused, api_base) ==
    IF checks = <<>> THEN <<>>
    ELSE LET rest == ProjectHosts(Tail(checks), include_paused, api_base)
         IN  IF SkipsCheck(Head(checks), include_paused) THEN rest
             ELSE << CheckHost(Head(checks), api_base) >> \o rest

\* The host query_mmonit_data substitutes when fetch_healthchecks_for_tenant raises.
MergeErrorHost(e) ==
    [ hostname |-> << "[Healthchecks] Merge Error" >>,
      led |-> 1, cpu |-> 0, mem |-> 0, events |-> 0, heartbeat |-> FALSE,
      id |-> << "hc", "merge-error" >>,
      os_name |-> "Healthchecks",
      os_release |-> << >>,
      filesystems |-> << >>,
      issues |-> << [ name |-> "Healthchecks merge", type |-> "Runtime",
                      status |-> e, led |-> 1 ] >>,
      service_count |-> 0,
      service_names |-> << >>,
      services_detail |-> << >>,
      source |-> "healthchecks",
      css_class |-> "healthchecks",
      view_url |-> << >> ]

-----------------------------------------------------------------------------
(* query_mmonit_data: the host detail enrichment (pure parts).             *)

\* stat.get("value"), None when the key is absent
StatValue(stat) == IF "value" \in DOMAIN stat THEN Some(stat.value) ELSE None

RECURSIVE FsFold(_, _)
\* the loop over a Filesystem service's statistics: a later stat of a type wins
FsFold(fs_info, stats) ==
    IF stats = <<>> THEN fs_info
    ELSE LET stat == Head(stats)
             t    == Get(stat, "type", 0)
             next == IF t = 18 THEN [fs_info EXCEPT !.usage_percent = StatValue(stat)]
                     ELSE IF t = 19 THEN [fs_info EXCEPT !.usage_mb = StatValue(stat)]
                     ELSE IF t = 20 THEN [fs_info EXCEPT !.total_mb = StatValue(stat)]
                     ELSE fs_info
         IN  FsFold(next, Tail(stats))

FsInfo(service) ==
    FsFold([ name |-> Get(service, "name", "Unknown"),
             usage_percent |-> None, usage_mb |-> None, total_mb |-> None ],
           Get(service, "statistics", <<>>))

\* KeepsFilesystem without the test of usage_percent.
KeepsFilesystem_Always(service) == Get(service, "type", "") = "Filesystem"

\* whether the service contributes an entry to `filesystems`
KeepsFilesystem(service) ==
    Get(service, "type", "") = "Filesystem" /\ FsInfo(service).usage_percent # None

\* IsIssue that takes red services only.
IsIssue_RedOnly(service) == "led" \in DOMAIN service /\ service.led = 0

\* whether the service contributes an entry to `issues`
IsIssue(service) == "led" \in DOMAIN service /\ service.led \in {0, 1}

RECURSIVE Filesystems(_)
Filesystems(services) ==
    IF services = <<>> THEN <<>>
    ELSE (IF KeepsFilesystem(Head(services)) THEN << FsInfo(Head(services)) >> ELSE <<>>)
         \o Filesystems(Tail(services))

IssueRow(service) ==
    [ name   |-> Get(service, "name", "Unknown"),
      type   |-> Get(service, "type", "Unknown"),
      status |-> Get(service, "status", "Unknown"),
      led    |-> service.led ]

RECURSIVE Issues(_)
Issues(services) ==
    IF services = <<>> THEN <<>>
    ELSE (IF IsIssue(Head(services)) THEN << IssueRow(Head(services)) >> ELSE <<>>)
         \o Issues(Tail(services))

DetailRow(service) ==
    [ name   |-> Get(service, "name", "Unknown"),
      type   |-> Get(service, "type", "Unknown"),
      status |-> Get(service, "status", "Unknown"),
      led    |-> Get(service, "led", 2) ]

ServicesDetail(services) == [ i \in 1..Len(services) |-> DetailRow(services[i]) ]

RECURSIVE ServiceNames(_)
ServiceNames(services) ==
    IF services = <<>> THEN <<>>
    ELSE (IF Get(Head(services), "name", "") # "" THEN << Head(services).name >> ELSE <<>>)
         \o ServiceNames(Tail(services))

\* f"{url}/admin/hosts/get?id={host['id']}"
ViewUrl(url, host) == << url, "/admin/hosts/get?id=" >> \o Get(host, "id", << "0" >>)

\* The keys a host gets from a detail response with status 200 whose body
\* parsed.  The three query_mmonit_data differ in the keys they set.
EnrichFields(variant, url, host, detail_data) ==
    LET host_records == Get(Get(detail_data, "records", << >>), "host", << >>)
        platform     == Get(host_records, "platform", << >>)
        services     == Get(host_records, "services", << >>)
        base == [ os_name       |-> Get(platform, "name", "OS N/A"),
                  os_release    |-> Get(platform, "release", << >>),
                  service_count |-> Len(services),
                  filesystems   |-> Filesystems(services),
                  issues        |-> Issues(services) ]
        detail == [ services_detail |-> ServicesDetail(services),
                    service_names   |-> ServiceNames(services) ]
        ui == [ source |-> "mmonit", css_class |-> "", view_url |-> ViewUrl(url, host) ]
    IN  IF variant = "standalone" THEN base
        ELSE IF variant = "mmonit_hub" THEN detail @@ base
        ELSE ui @@ detail @@ base

\* The keys a host gets when its detail call returns another status or raises
\* (_mark_host_na in mmonit_hub/__init__.py).
PlaceholderFields(variant, url, host) ==
    LET base == [ filesystems |-> << >>, issues |-> << >>, service_count |-> 0,
                  os_name |-> "OS N/A", os_release |-> << >> ]
        detail == [ services_detail |-> << >>, service_names |-> << >> ]
        ui == [ source |-> "mmonit", css_class |-> "", view_url |-> ViewUrl(url, host) ]
    IN  IF variant = "standalone" THEN base
        ELSE IF variant = "mmonit_hub" THEN detail @@ base
        ELSE ui @@ detail @@ base

-----------------------------------------------------------------------------
(* The configurations, callers and upstream systems the model draws from.  *)

User(name, password, tenants) ==
    [ username |-> name, password |-> hash_password(password, "salt"), tenants |-> tenants ]

\* no "users" key at all
CfgNoUsers == [ port |-> 8080 ]
\* "users": []
CfgEmptyUsers == [ port |-> 8080, users |-> << >> ]
CfgTeam ==
    [ port |-> 8080,
      users |-> << User("alice", "a1", << "t1" >>),
                   User("bob", "b1", << "*" >>),
                   User("carol", "c1", << >>) >> ]
\* a principal named "anonymous", a username listed twice, a user without a
\* "tenants" key (load_config only warns about it), a password that is no hash
CfgOdd ==
    [ port |-> 8080,
      users |-> << User("anonymous", "n1", << "t2" >>),
                   User("alice", "a1", << "t1" >>),
                   User("alice", "a2", << "t2" >>),
                   [ username |-> "dave", password |-> hash_password("d1", "salt") ],
                   [ username |-> "erin", password |-> PlainText("e1"),
                     tenants |-> << "t1" >> ] >> ]

Configs == { CfgNoUsers, CfgEmptyUsers, CfgTeam, CfgOdd }

Credentials ==
    { << "alice", "a1" >>, << "alice", "a2" >>, << "alice", "bad" >>,
      << "bob", "b1" >>, << "carol", "c1" >>, << "mallory", "m1" >>,
      << "anonymous", "n1" >>, << "dave", "d1" >>, << "erin", "e1" >> }

NoRequest == [ kind |-> "none", creds |-> << >> ]

\* Authorization headers: absent, another scheme, Basic that does not decode,
\* Basic user:password
HeaderRequests ==
    { NoRequest, [ kind |-> "other", creds |-> << >> ], [ kind |-> "basic", creds |-> << >> ] }
    \cup { [ kind |-> "basic", creds |-> c ] : c \in Credentials }

\* the login form of the Flask application
FormRequests == { [ kind |-> "form", creds |-> c ] : c \in Credentials }

\* the callers whose tenants a library user resolves with get_user_tenants
NameRequests ==
    { [ kind |-> "name", creds |-> << n, "" >> ] :
        n \in { "alice", "mallory" } }

\* allowed_tenants arguments of a direct call: None and lists
AllowedArgs ==
    { None, Some(<< >>), Some(<< "*" >>), Some(<< "t1" >>), Some(<< "t2" >>),
      Some(<< "t1", "t2" >>), Some(<< "zz" >>) }

ProjA == [ name |-> "A", api_key |-> "kA", tags |-> << "prod" >> ]
ProjNoKey == [ name |-> "N", api_base |-> "https://hc.example/" ]
ProjB == [ name |-> "B", api_key |-> "kB", api_base |-> "https://hc.example/",
           include_paused |-> TRUE ]

Inst1 ==
    [ name |-> "t1", url |-> "https://m1", username |-> "admin", password |-> "p1",
      healthchecks |-> [ enabled |-> TRUE, projects |-> << ProjA, ProjNoKey, ProjB >> ] ]
Inst2 ==
    [ name |-> "t2", url |-> "https://m2", username |-> "admin", password |-> "p2" ]

DefaultInstances == << Inst1, Inst2 >>

\* str(status_code)
Str(n) == CASE n = 200 -> "200" [] n = 403 -> "403" [] n = 404 -> "404"
            [] n = 500 -> "500" [] OTHER -> "NNN"

\* --- the primary monitoring API -----------------------------------------
HostNames == << "h1", "h2", "h3", "h4" >>

\* led of the i-th record of a host list; 7 is outside the led vocabulary
UpstreamLed(i) == CASE i = 1 -> 2 [] i = 2 -> 7 [] i = 3 -> 0 [] OTHER -> 1

RawHost(i) ==
    [ id |-> << HostNames[i] >>, hostname |-> << HostNames[i] >>, led |-> UpstreamLed(i),
      cpu |-> 0, mem |-> 0, events |-> 0, heartbeat |-> TRUE ]

\* "records" of a host-list response with n hosts
ListRecords(n) == [ i \in 1..n |-> RawHost(i) ]

\* the body {"records": {"total": 1}}: "records" is a JSON object, not an array
RecordsObject == [ records |-> << "total" >>, records_type |-> "dict" ]
\* type(data.get("records")) of a parsed body
RecordsType(body) == Get(body, "records_type", "list")
\* str(e) of what the handler of the inner try raises on a host that is a str:
\* host.update(...) in data_fetcher.py, host[...] = ... in the other two
NotAHostText(variant) ==
    IF variant = "data_fetcher" THEN "'str' object has no attribute 'update'"
    ELSE "'str' object does not support item assignment"
\* str(e) of (hosts or []) + hc_hosts on a dict
DictPlusListText == "unsupported operand type(s) for +: 'dict' and 'list'"

SvcRoot ==
    [ name |-> "root", type |-> "Filesystem", led |-> 2, status |-> "ok",
      statistics |-> << [ type |-> 18, value |-> 40 ], [ type |-> 19, value |-> 400 ],
                        [ type |-> 20, value |-> 1000 ] >> ]
SvcTmp ==
    [ name |-> "tmp", type |-> "Filesystem", led |-> 1, status |-> "no data",
      statistics |-> << [ type |-> 19, value |-> 7 ] >> ]
SvcNginx == [ name |-> "nginx", type |-> "Process", led |-> 0, status |-> "failed" ]
SvcCron == [ name |-> "cron", type |-> "Process", led |-> 2, status |-> "ok" ]

\* the body of the detail response of a host
DetailData(host) ==
    IF Get(host, "id", << >>) = << "h1" >>
    THEN [ records |-> [ host |-> [ platform |-> [ name |-> "Linux", release |-> << "6.1" >> ],
                                    services |-> << SvcRoot, SvcNginx, SvcTmp >> ] ] ]
    ELSE [ records |-> [ host |-> [ platform |-> [ name |-> "FreeBSD" ],
                                    services |-> << SvcCron >> ] ] ]

\* What an outbound call does: it returns a response (a status and a body,
\* which parses as JSON to `body` or does not parse), or it raises.
Response(status, body) ==
    [ kind |-> "response", status |-> status, parses |-> TRUE, body |-> body,
      exc |-> "", text |-> "" ]
Unparsable(status) ==
    [ kind |-> "response", status |-> status, parses |-> FALSE, body |-> << >>,
      exc |-> "", text |-> "" ]
Raises(exc, text) ==
    [ kind |-> "raise", status |-> 0, parses |-> FALSE, body |-> << >>,
      exc |-> exc, text |-> text ]
\* str(e) of the error .json() raises on a body that is not JSON
BadJsonText == "Expecting value"

BootstrapOutcomes ==
    { Response(200, << >>), Raises("Timeout", "timed out"),
      Raises("ConnectionError", "refused") }

LoginOutcomes ==
    { Response(200, << >>), Response(403, << >>),
      Raises("Timeout", "timed out"), Raises("ConnectionError", "refused") }

ListOutcomes ==
    { Response(200, [ records |-> ListRecords(n) ]) : n \in 0..MaxHosts }
    \cup { Unparsable(200), Response(500, << >>), Response(200, RecordsObject),
           Raises("Timeout", "timed out"), Raises("ConnectionError", "refused") }

\* detail outcomes of a host: 200 with its body, 200 with a body that does
\* not parse, another status, a timeout
DetailOutcomes(host) ==
    { Response(200, DetailData(host)), Unparsable(200), Response(500, << >>),
      Raises("Timeout", "timed out") }

\* --- the Healthchecks API -----------------------------------------------
CheckUp == [ id |-> "c1", name |-> "web", status |-> "up", tags |-> << "prod", "web" >>,
             unique_key |-> "uk1" ]
CheckDown == [ id |-> "c2", name |-> "db", status |-> "down" ]
CheckPaused == [ id |-> "c3", name |-> "cron", status |-> "paused" ]

\* parsed JSON bodies: a dict is [type |-> "dict", value |-> the dict], a JSON
\* array is [type |-> "list"]
JsonDict(d) == [ type |-> "dict", value |-> d ]
JsonList == [ type |-> "list", value |-> << >> ]
\* str(e) of the AttributeError of payload.get on a list
NoGetText == "'list' object has no attribute 'get'"

HcOutcomes ==
    { Response(200, JsonDict([ checks |-> << CheckUp, CheckDown, CheckPaused >> ])),
      Response(200, JsonList),
      Unparsable(200),
      Response(500, << >>),
      Raises("ConnectionError", "refused") }

-----------------------------------------------------------------------------
(* query_mmonit_data and fetch_healthchecks_for_tenant, step by step.      *)

\* the state of the fetch threads, which one aggregation pass leaves alone
threadVars == << thr, lock, hist, cycles >>
reqVars  == << entry, cfg, req, impl, instances, threadVars >>
authVars == << session_user, identity, http_status, envelope, allowed >>
hcVars   == << pidx, merged, hc_hosts, cache, prune_log, hc_log >>
hostVars == << hosts, hosts_type, hidx, detail_log, list_n >>

\* the instance the loop is at
Inst == instances[idx]

\* before session = requests.Session()
NoSession == [ made |-> 0, via |-> << >> ]
\* session = requests.Session(): one more object, the local names the new one
NewSession(s) == [ s EXCEPT !.made = @ + 1 ]
\* session.get / session.post: the request goes through the object the local names
Via(s) == [ s EXCEPT !.via = Append(@, s.made) ]

\* The tenant filter: whether the loop skips the instance named `name`.
TenantSkipped(allowed_tenants, name) ==
    /\ allowed_tenants # None
    /\ allowed_tenants[1] # << >>
    /\ ~InList("*", allowed_tenants[1])
    /\ ~InList(name, allowed_tenants[1])

\* ExceptionError with one string for the two requests exceptions.
ExceptionError_OneString(o) ==
    IF o.exc \in { "Timeout", "ConnectionError" } THEN << "Connection failed" >>
    ELSE << o.text >>

\* The `error` string of the except clauses of the tenant-level try.
ExceptionError(o) ==
    IF o.exc = "Timeout" THEN << "Connection timeout" >>
    ELSE IF o.exc = "ConnectionError" THEN << "Connection failed" >>
    ELSE << o.text >>

LoginError(status) == << "Login failed: HTTP ", Str(status) >>
ApiError(status)   == << "API error: HTTP ", Str(status) >>

\* A tenant-level failure.  data_fetcher.py records the error and goes on to
\* the Healthchecks merge; the other two append the error entry at once.
TenantFails(e) ==
    IF impl = "data_fetcher"
    THEN /\ error' = Some(e)
         /\ pc' = "hc_enter"
         /\ UNCHANGED << result, idx >>
    ELSE /\ result' = Append(result, [ tenant |-> Inst.name, url |-> Inst.url,
                                       error |-> e, hosts |-> << >> ])
         /\ idx' = idx + 1
         /\ pc' = "loop"
         /\ UNCHANGED error

\* where control goes once every host of the list has its detail
AfterDetails == IF impl = "data_fetcher" THEN "hc_enter" ELSE "append"

\* NextInstance that leaves `error` as the previous instance set it.
NextInstance_KeepsError ==
    /\ pc = "loop"
    /\ IF idx > Len(instances)
       THEN /\ pc' = "return"
            /\ UNCHANGED << idx, hostVars, error, calls, own, session, hcVars >>
       ELSE IF TenantSkipped(allowed, Inst.name)
       THEN /\ idx' = idx + 1
            /\ UNCHANGED << pc, hostVars, error, calls, own, session, hcVars >>
       ELSE /\ pc' = "bootstrap"
            /\ hosts' = << >>
            /\ hosts_type' = "list"
            /\ hidx' = 0
            /\ detail_log' = << >>
            /\ list_n' = -1
            /\ calls' = << >>
            /\ own' = << >>
            /\ session' = NoSession
            /\ pidx' = 0
            /\ merged' = << >>
            /\ hc_hosts' = << >>
            /\ hc_log' = << >>
            /\ UNCHANGED << idx, cache, prune_log, error >>
    /\ UNCHANGED << reqVars, authVars, result, raised >>

\* for instance in instances: ... the tenant filter
NextInstance ==
    /\ pc = "loop"
    /\ IF idx > Len(instances)
       THEN /\ pc' = "return"
            /\ UNCHANGED << idx, hostVars, error, calls, own, session, hcVars >>
       ELSE IF TenantSkipped(allowed, Inst.name)
       THEN /\ idx' = idx + 1
            /\ UNCHANGED << pc, hostVars, error, calls, own, session, hcVars >>
       ELSE /\ pc' = "bootstrap"
            /\ hosts' = << >>
            /\ hosts_type' = "list"
            /\ hidx' = 0
            /\ detail_log' = << >>
            /\ list_n' = -1
            /\ error' = None
            /\ calls' = << >>
            /\ own' = << >>
            /\ session' = NoSession
            /\ pidx' = 0
            /\ merged' = << >>
            /\ hc_hosts' = << >>
            /\ hc_log' = << >>
            /\ UNCHANGED << idx, cache, prune_log >>
    /\ UNCHANGED << reqVars, authVars, result, raised >>

\* Bootstrap that sends the GET a second time when the first one raised.
Bootstrap_Retry ==
    /\ pc = "bootstrap"
    /\ \E o \in BootstrapOutcomes :
          IF o.kind = "raise"
          THEN /\ calls' = calls \o << << "bootstrap" >>, << "bootstrap" >> >>
               /\ own' = own \o << o, o >>
               /\ session' = Via(Via(NewSession(session)))
               /\ TenantFails(ExceptionError(o))
          ELSE /\ calls' = Append(calls, << "bootstrap" >>)
               /\ own' = Append(own, o)
               /\ session' = Via(NewSession(session))
               /\ pc' = "login"
               /\ UNCHANGED << error, result, idx >>
    /\ UNCHANGED << reqVars, authVars, hostVars, hcVars, raised >>

\* session.get(f"{url}/index.csp")
Bootstrap ==
    /\ pc = "bootstrap"
    /\ calls' = Append(calls, << "bootstrap" >>)
    /\ session' = Via(NewSession(session))
    /\ \E o \in BootstrapOutcomes :
          /\ own' = Append(own, o)
          /\ IF o.kind = "raise" THEN TenantFails(ExceptionError(o))
             ELSE pc' = "login" /\ UNCHANGED << error, result, idx >>
    /\ UNCHANGED << reqVars, authVars, hostVars, hcVars, raised >>

\* Login that does not look at the status of the response.
Login_IgnoresStatus ==
    /\ pc = "login"
    /\ calls' = Append(calls, << "login" >>)
    /\ session' = Via(session)
    /\ \E o \in LoginOutcomes :
          /\ own' = Append(own, o)
          /\ IF o.kind = "raise" THEN TenantFails(ExceptionError(o))
             ELSE pc' = "list" /\ UNCHANGED << error, result, idx >>
    /\ UNCHANGED << reqVars, authVars, hostVars, hcVars, raised >>

\* session.post(f"{url}/z_security_check")
Login ==
    /\ pc = "login"
    /\ calls' = Append(calls, << "login" >>)
    /\ session' = Via(session)
    /\ \E o \in LoginOutcomes :
          /\ own' = Append(own, o)
          /\ IF o.kind = "raise" THEN TenantFails(ExceptionError(o))
             ELSE IF o.status # 200 THEN TenantFails(LoginError(o.status))
             ELSE pc' = "list" /\ UNCHANGED << error, result, idx >>
    /\ UNCHANGED << reqVars, authVars, hostVars, hcVars, raised >>

\* session.get(f"{url}/api/{api_version}/status/hosts/list")
ListHosts ==
    /\ pc = "list"
    /\ calls' = Append(calls, << "list" >>)
    /\ session' = Via(session)
    /\ \E o \in ListOutcomes :
          /\ own' = Append(own, o)
          /\ IF o.kind = "raise"
             THEN TenantFails(ExceptionError(o)) /\ UNCHANGED hostVars
             ELSE IF o.status # 200
             THEN TenantFails(ApiError(o.status)) /\ UNCHANGED hostVars
             ELSE IF ~o.parses
             THEN TenantFails(<< BadJsonText >>) /\ UNCHANGED hostVars
             ELSE IF RecordsType(o.body) = "dict"
             THEN \* for host in hosts: host is a key, a str; host["id"] raises
                  \* inside the inner try, whose handler raises in its turn
                  /\ TenantFails(<< NotAHostText(impl) >>)
                  /\ hosts' = o.body.records
                  /\ hosts_type' = "dict"
                  /\ UNCHANGED << hidx, detail_log, list_n >>
             ELSE /\ hosts' = Get(o.body, "records", << >>)
                  /\ list_n' = Len(hosts')
                  /\ hidx' = 1
                  /\ pc' = IF hosts' = << >> THEN AfterDetails ELSE "detail"
                  /\ UNCHANGED << hosts_type, detail_log, error, result, idx >>
    /\ UNCHANGED << reqVars, authVars, hcVars, raised >>

DetailKind(o) ==
    IF o.kind = "raise" THEN "timeout"
    ELSE IF o.status # 200 THEN "status"
    ELSE IF ~o.parses THEN "parse"
    ELSE "ok"

\* DetailApplied with the failure branches doing nothing: the host keeps
\* only the keys of the list response.
DetailApplied_NoPlaceholder(variant, url, host, o) ==
    IF DetailKind(o) = "ok"
    THEN Update(host, EnrichFields(variant, url, host, o.body))
    ELSE host

\* The host after its detail call did `o`.
DetailApplied(variant, url, host, o) ==
    IF DetailKind(o) = "ok"
    THEN Update(host, EnrichFields(variant, url, host, o.body))
    ELSE Update(host, PlaceholderFields(variant, url, host))

\* Detail that logs in again, on a session of its own, before each host.
Detail_Relogin ==
    /\ pc = "detail"
    /\ hidx <= Len(hosts)
    /\ calls' = calls \o << << "login" >>, << "detail" >> \o hosts[hidx].id >>
    /\ session' = Via(Via(NewSession(session)))
    /\ \E o \in DetailOutcomes(hosts[hidx]) :
          /\ own' = own \o << Response(200, << >>), o >>
          /\ hosts' = [hosts EXCEPT ![hidx] = DetailApplied(impl, Inst.url, @, o)]
          /\ detail_log' = Append(detail_log, DetailKind(o))
    /\ hidx' = hidx + 1
    /\ pc' = IF hidx = Len(hosts) THEN AfterDetails ELSE "detail"
    /\ UNCHANGED << reqVars, authVars, hosts_type, list_n, error, hcVars, result, idx, raised >>

\* Detail that starts the detail loop over when a detail call fails.
Detail_Restart ==
    /\ pc = "detail"
    /\ hidx <= Len(hosts)
    /\ \E o \in DetailOutcomes(hosts[hidx]) :
          IF DetailKind(o) = "ok"
          THEN /\ calls' = Append(calls, << "detail" >> \o hosts[hidx].id)
               /\ session' = Via(session)
               /\ own' = Append(own, o)
               /\ hosts' = [hosts EXCEPT ![hidx] = DetailApplied(impl, Inst.url, @, o)]
               /\ detail_log' = Append(detail_log, DetailKind(o))
               /\ hidx' = hidx + 1
               /\ pc' = IF hidx = Len(hosts) THEN AfterDetails ELSE "detail"
          ELSE /\ calls' = SubSeq(calls, 1, 3)
               /\ session' = [session EXCEPT !.via = SubSeq(@, 1, 3)]
               /\ own' = SubSeq(own, 1, 3)
               /\ hosts' = ListRecords(Len(hosts))
               /\ detail_log' = << >>
               /\ hidx' = 1
               /\ UNCHANGED pc
    /\ UNCHANGED << reqVars, authVars, hosts_type, list_n, error, hcVars, result, idx, raised >>

\* session.get(f"{url}/api/{api_version}/status/hosts/get", params={"id": ...})
Detail ==
    /\ pc = "detail"
    /\ hidx <= Len(hosts)
    /\ calls' = Append(calls, << "detail" >> \o hosts[hidx].id)
    /\ session' = Via(session)
    /\ \E o \in DetailOutcomes(hosts[hidx]) :
          /\ own' = Append(own, o)
          /\ hosts' = [hosts EXCEPT ![hidx] = DetailApplied(impl, Inst.url, @, o)]
          /\ detail_log' = Append(detail_log, DetailKind(o))
    /\ hidx' = hidx + 1
    /\ pc' = IF hidx = Len(hosts) THEN AfterDetails ELSE "detail"
    /\ UNCHANGED << reqVars, authVars, hosts_type, list_n, error, hcVars, result, idx, raised >>

\* hc_cfg / projects of an instance
HcCfg(instance) == Get(instance, "healthchecks", << >>)
Projects(instance) == Get(HcCfg(instance), "projects", << >>)

\* HcDisabled that does not look at "enabled".
HcDisabled_IgnoresEnabled(instance) ==
    \/ HcCfg(instance) = << >>
    \/ Projects(instance) = << >>

\* not hc_cfg or not hc_cfg.get("enabled") or not hc_cfg.get("projects")
HcDisabled(instance) ==
    \/ HcCfg(instance) = << >>
    \/ ~Get(HcCfg(instance), "enabled", FALSE)
    \/ Projects(instance) = << >>

\* fetch_healthchecks_for_tenant(instance): the early return, or the loop starts
FetchHealthchecksEnter ==
    /\ pc = "hc_enter"
    /\ IF HcDisabled(Inst)
       THEN /\ hc_hosts' = << >>
            /\ pc' = "append"
            /\ UNCHANGED << pidx, merged >>
       ELSE /\ merged' = << >>
            /\ pidx' = 1
            /\ pc' = "hc_project"
            /\ UNCHANGED hc_hosts
    /\ UNCHANGED << reqVars, authVars, hostVars, error, cache, prune_log, hc_log,
                    result, idx, calls, own, session, raised >>

\* what the request of a project with a key does: the except clause ("error"),
\* an exception after it that leaves the function ("escaped"), or hosts ("ok")
ProjectFetch(proj, o) ==
    LET api_base == ApiBase(proj)
        include_paused == Get(proj, "include_paused", FALSE)
    IN  IF o.kind = "raise"
        THEN [ kind |-> "error", text |-> o.text,
               hosts |-> << ProjectErrorHost(proj, api_base, o.text) >> ]
        ELSE IF o.status >= 400
        THEN [ kind |-> "error", text |-> "HTTPError",
               hosts |-> << ProjectErrorHost(proj, api_base, "HTTPError") >> ]
        ELSE IF ~o.parses
        THEN [ kind |-> "error", text |-> BadJsonText,
               hosts |-> << ProjectErrorHost(proj, api_base, BadJsonText) >> ]
        ELSE IF o.body.type # "dict"
        THEN [ kind |-> "escaped", text |-> NoGetText, hosts |-> << >> ]
        ELSE [ kind |-> "ok", text |-> "",
               hosts |-> ProjectHosts(Get(o.body.value, "checks", << >>),
                                      include_paused, api_base) ]

\* the loop is over, or goes on with the next project
HcAdvance(new_merged) ==
    /\ pidx' = pidx + 1
    /\ merged' = new_merged
    /\ IF pidx = Len(Projects(Inst))
       THEN hc_hosts' = new_merged /\ pc' = "append"
       ELSE UNCHANGED << hc_hosts, pc >>

\* a project without api_key: continue
HcProjectSkip ==
    /\ pc = "hc_project"
    /\ Get(Projects(Inst)[pidx], "api_key", "") = ""
    /\ hc_log' = Append(hc_log, "skipped")
    /\ HcAdvance(merged)
    /\ UNCHANGED << reqVars, authVars, hostVars, error, cache, prune_log,
                    result, idx, calls, own, session, raised >>

\* requests.get(f"{api_base}/api/v3/checks/") of a project and what follows
HcProjectFetch ==
    /\ pc = "hc_project"
    /\ Get(Projects(Inst)[pidx], "api_key", "") # ""
    /\ LET proj == Projects(Inst)[pidx]
           cache_key == _project_cache_key(Inst, proj, ApiBase(proj))
       IN  /\ calls' = Append(calls, << "checks", Get(proj, "name", "") >>)
           /\ session' = [session EXCEPT !.via = Append(@, 0)]
           /\ \E o \in HcOutcomes :
                LET r == ProjectFetch(proj, o)
                IN  /\ own' = Append(own, o)
                    /\ hc_log' = Append(hc_log, r.kind)
                    /\ IF r.kind = "escaped"
                       THEN \* caught by query_mmonit_data: except Exception as e
                            /\ hc_hosts' = << MergeErrorHost(r.text) >>
                            /\ pc' = "append"
                            /\ UNCHANGED << pidx, merged, cache, prune_log >>
                       ELSE /\ HcAdvance(merged \o r.hosts)
                            /\ IF r.kind = "ok"
                               THEN /\ cache' = _update_healthchecks_cache(cache, cache_key, r.hosts)
                                    /\ prune_log' = PruneLogAfter(prune_log, cache, cache_key, r.hosts)
                               ELSE UNCHANGED << cache, prune_log >>
    /\ UNCHANGED << reqVars, authVars, hostVars, error, result, idx, raised >>

\* TenantEntry with the merge the other way round: hc_hosts + hosts.
TenantEntry_SecondaryFirst(variant, instance, hs, hcs, err) ==
    LET base == [ tenant |-> instance.name, url |-> instance.url ]
    IN  IF variant = "data_fetcher"
        THEN IF err # None
             THEN [ error |-> err[1], hosts |-> hcs \o hs ] @@ base
             ELSE [ hosts |-> hcs \o hs ] @@ base
        ELSE [ hosts |-> hs ] @@ base

\* The entry appended for the instance.
TenantEntry(variant, instance, hs, hcs, err) ==
    LET base == [ tenant |-> instance.name, url |-> instance.url ]
    IN  IF variant = "data_fetcher"
        THEN IF err # None
             THEN [ error |-> err[1], hosts |-> hs \o hcs ] @@ base
             ELSE [ hosts |-> hs \o hcs ] @@ base
        ELSE [ hosts |-> hs ] @@ base

\* AppendEntry putting the entry in front of the earlier ones.
AppendEntry_Prepend ==
    /\ pc = "append"
    /\ result' = << TenantEntry(impl, Inst, hosts, hc_hosts, error) >> \o result
    /\ idx' = idx + 1
    /\ pc' = "loop"
    /\ UNCHANGED << reqVars, authVars, hostVars, error, hcVars, calls, own, session, raised >>

\* merged_hosts = (hosts or []) + hc_hosts, which raises TypeError when hosts
\* is a dict and leaves query_mmonit_data; else result.append(entry)
AppendEntry ==
    /\ pc = "append"
    /\ IF impl = "data_fetcher" /\ hosts_type = "dict"
       THEN /\ raised' = Some(DictPlusListText)
            /\ pc' = "done"
            /\ UNCHANGED << result, idx >>
       ELSE /\ result' = Append(result, TenantEntry(impl, Inst, hosts, hc_hosts, error))
            /\ idx' = idx + 1
            /\ pc' = "loop"
            /\ UNCHANGED raised
    /\ UNCHANGED << reqVars, authVars, hostVars, error, hcVars, calls, own, session >>

-----------------------------------------------------------------------------
(* fetch_healthchecks_for_tenant called from several threads: each thread  *)
(* runs fetch cycles for an instance; _HEALTHCHECK_CACHE, the lock and the *)
(* printed prune lines are shared by the threads of the process.           *)

Threads == { 1, 2 }

\* A thread outside fetch_healthchecks_for_tenant, before its first call.
\* `calls`, `outs`, `log`, `fetched` and `wrote` record what the current call
\* did: the projects requested, what each request did, what became of each
\* project, the checks of each payload that was accepted, the cache keys
\* written.
IdleThread ==
    [ pc |-> "idle", inst |-> Inst2, pidx |-> 0, merged |-> << >>,
      project_hosts |-> << >>, host_index |-> << >>, previous |-> << >>,
      removed_ids |-> {}, cache_key |-> << >>, fetched |-> << >>,
      out |-> << >>, raised |-> "", calls |-> << >>, outs |-> << >>, wrote |-> << >>,
      log |-> << >> ]

\* _HEALTHCHECK_CACHE_LOCK = RLock(): not held
Unlocked == [ owner |-> 0, count |-> 0 ]

\* instances with a "healthchecks" block that is not enabled / has no projects
InstOff ==
    [ name |-> "t3", url |-> "https://m3", username |-> "admin", password |-> "p3",
      healthchecks |-> [ enabled |-> FALSE, projects |-> << ProjA >> ] ]
InstEmpty ==
    [ name |-> "t4", url |-> "https://m4", username |-> "admin", password |-> "p4",
      healthchecks |-> [ enabled |-> TRUE, projects |-> << >> ] ]
\* project A of t1 after its API key was rotated
ProjA2 == [ name |-> "A", api_key |-> "kA2", tags |-> << "prod" >> ]
Inst1r ==
    [ name |-> "t1", url |-> "https://m1", username |-> "admin", password |-> "p1",
      healthchecks |-> [ enabled |-> TRUE, projects |-> << ProjA2 >> ] ]

CycleInstances == { Inst1, Inst1r, Inst2, InstOff, InstEmpty }

\* checks with the other statuses of the API, without a status, and with a
\* status the mapping does not know
CheckGrace == [ id |-> "c4", name |-> "mail", status |-> "grace" ]
CheckNew == [ id |-> "c5", name |-> "backup", status |-> "new" ]
CheckNoStatus == [ id |-> "c6", name |-> "sync" ]
CheckWeird == [ id |-> "c7", name |-> "dns", status |-> "weird" ]

\* a payload with a check of every kind, and a later one from which the
\* checks c2, c5, c6 and c7 have disappeared
ChecksAll ==
    << CheckUp, CheckDown, CheckPaused, CheckGrace, CheckNew, CheckNoStatus, CheckWeird >>
ChecksFewer == << CheckUp, CheckPaused, CheckGrace >>

\* what a project's request does in a fetch cycle
CycleOutcomes ==
    { Response(200, JsonDict([ checks |-> ChecksAll ])),
      Response(200, JsonDict([ checks |-> ChecksFewer ])),
      Raises("ConnectionError", "refused") }

\* the ids of a list of hosts
IdsOf(hs) == { HostIndexId(hs[i]) : i \in 1..Len(hs) }

Proj(t) == Projects(thr[t].inst)[thr[t].pidx]

\* the state of an aggregation pass, which the fetch threads leave alone
passVars == << entry, cfg, req, session_user, identity, http_status, envelope, impl,
               instances, allowed, pc, idx, hosts, hosts_type, hidx, error, pidx,
               merged,
               hc_hosts, result, raised, calls, own, session, detail_log, list_n, hc_log >>

\* a thread calls fetch_healthchecks_for_tenant(instance): the early return,
\* or the loop over the projects starts
HcCall(t) ==
    /\ thr[t].pc \in { "idle", "done" }
    /\ cycles < MaxCycles
    /\ cycles' = cycles + 1
    /\ \E instance \in CycleInstances :
         thr' = [thr EXCEPT ![t] =
                   IF HcDisabled(instance)
                   THEN [ IdleThread EXCEPT !.pc = "done", !.inst = instance ]
                   ELSE [ IdleThread EXCEPT !.pc = "project", !.inst = instance,
                                            !.pidx = 1 ]]
    /\ UNCHANGED << passVars, cache, prune_log, lock, hist >>

\* HcReturn that appends a host the cache holds and the call did not fetch.
HcReturn_ServesCache(t) ==
    /\ thr[t].pc = "project"
    /\ thr[t].pidx > Len(Projects(thr[t].inst))
    /\ LET fresh == IdsOf(thr[t].merged)
           stale == { kid \in UNION { { << k, id >> : id \in DOMAIN cache[k] } : k \in DOMAIN cache } :
                        kid[2] \notin fresh }
       IN  thr' = [thr EXCEPT ![t].pc = "done",
                              ![t].out = IF stale = {} THEN thr[t].merged
                                         ELSE LET kid == CHOOSE x \in stale : TRUE
                                              IN  Append(thr[t].merged, cache[kid[1]][kid[2]])]
    /\ UNCHANGED << passVars, cache, prune_log, lock, hist, cycles >>

\* the loop is over: return merged
HcReturn(t) ==
    /\ thr[t].pc = "project"
    /\ thr[t].pidx > Len(Projects(thr[t].inst))
    /\ thr' = [thr EXCEPT ![t].pc = "done", ![t].out = thr[t].merged]
    /\ UNCHANGED << passVars, cache, prune_log, lock, hist, cycles >>

\* if not api_key: continue
HcSkip(t) ==
    /\ thr[t].pc = "project"
    /\ thr[t].pidx <= Len(Projects(thr[t].inst))
    /\ Get(Proj(t), "api_key", "") = ""
    /\ thr' = [thr EXCEPT ![t].pidx = @ + 1, ![t].log = Append(@, "skipped")]
    /\ UNCHANGED << passVars, cache, prune_log, lock, hist, cycles >>

\* HcRequest whose except clause files the synthetic host in the cache.
HcRequest_CachesError(t) ==
    /\ thr[t].pc = "project"
    /\ thr[t].pidx <= Len(Projects(thr[t].inst))
    /\ Get(Proj(t), "api_key", "") # ""
    /\ \E o \in CycleOutcomes :
         LET r == ProjectFetch(Proj(t), o)
             key == _project_cache_key(thr[t].inst, Proj(t), ApiBase(Proj(t)))
             called == [ thr[t] EXCEPT !.calls = Append(@, Get(Proj(t), "name", "")),
                                       !.outs = Append(@, o),
                                       !.log = Append(@, r.kind) ]
         IN  IF r.kind = "error"
             THEN /\ thr' = [thr EXCEPT ![t] =
                               [ called EXCEPT !.merged = @ \o r.hosts, !.pidx = @ + 1 ]]
                  /\ cache' = _update_healthchecks_cache(cache, key, r.hosts)
                  /\ prune_log' = PruneLogAfter(prune_log, cache, key, r.hosts)
             ELSE /\ thr' = [thr EXCEPT ![t] =
                               [ called EXCEPT
                                   !.pc = "acquire",
                                   !.fetched = Append(@, [ pidx |-> thr[t].pidx,
                                                           checks |-> Get(o.body.value, "checks", << >>) ]),
                                   !.project_hosts = r.hosts,
                                   !.host_index = HostIndex(r.hosts),
                                   !.cache_key = key ]]
                  /\ UNCHANGED << cache, prune_log >>
    /\ UNCHANGED << passVars, lock, hist, cycles >>

\* the request of a project with a key, up to host_index of
\* _update_healthchecks_cache (all of it local to the thread)
HcRequest(t) ==
    /\ thr[t].pc = "project"
    /\ thr[t].pidx <= Len(Projects(thr[t].inst))
    /\ Get(Proj(t), "api_key", "") # ""
    /\ \E o \in CycleOutcomes :
         LET r == ProjectFetch(Proj(t), o)
             called == [ thr[t] EXCEPT !.calls = Append(@, Get(Proj(t), "name", "")),
                                       !.outs = Append(@, o),
                                       !.log = Append(@, r.kind) ]
         IN  thr' = [thr EXCEPT ![t] =
                 IF r.kind = "error"
                 THEN [ called EXCEPT !.merged = @ \o r.hosts, !.pidx = @ + 1 ]
                 ELSE IF r.kind = "escaped"
                 THEN [ called EXCEPT !.pc = "done", !.raised = r.text ]
                 ELSE [ called EXCEPT
                          !.pc = "acquire",
                          !.fetched = Append(@, [ pidx |-> thr[t].pidx,
                                                  checks |-> Get(o.body.value, "checks", << >>) ]),
                          !.project_hosts = r.hosts,
                          !.host_index = HostIndex(r.hosts),
                          !.cache_key = _project_cache_key(thr[t].inst, Proj(t),
                                                           ApiBase(Proj(t))) ]]
    /\ UNCHANGED << passVars, cache, prune_log, lock, hist, cycles >>

\* A lock that never makes a thread wait.
LockAvailable_NoLock(t) == TRUE

\* A lock per cache key: only a holder working on the same key makes a thread wait.
LockAvailable_PerKey(t) ==
    IF lock.owner \in { 0, t } THEN TRUE
    ELSE thr[lock.owner].cache_key # thr[t].cache_key

\* whether the RLock lets thread t in: it is free, or t holds it already
LockAvailable(t) == lock.owner \in { 0, t }

\* with _HEALTHCHECK_CACHE_LOCK: (__enter__)
LockAcquire(t) ==
    /\ thr[t].pc = "acquire"
    /\ LockAvailable(t)
    /\ lock' = [ owner |-> t, count |-> lock.count + 1 ]
    /\ thr' = [thr EXCEPT ![t].pc = "read"]
    /\ UNCHANGED << passVars, cache, prune_log, hist, cycles >>

\* previous = _HEALTHCHECK_CACHE.get(cache_key) or {}; removed_ids; print
ReadPrevious(t) ==
    /\ thr[t].pc = "read"
    /\ thr' = [thr EXCEPT
                 ![t].pc = "write",
                 ![t].previous = Get(cache, thr[t].cache_key, << >>),
                 ![t].removed_ids =
                     RemovedIds(cache, thr[t].cache_key, thr[t].project_hosts)]
    /\ prune_log' = PruneLogAfter(prune_log, cache, thr[t].cache_key,
                                  thr[t].project_hosts)
    /\ UNCHANGED << passVars, cache, lock, hist, cycles >>

\* _HEALTHCHECK_CACHE[cache_key] = host_index, the lock is released
\* (__exit__), merged.extend(project_hosts), and the loop goes on
WriteCache(t) ==
    /\ thr[t].pc = "write"
    /\ cache' = (thr[t].cache_key :> thr[t].host_index) @@ cache
    /\ hist' = (thr[t].cache_key :>
                  Append(Get(hist, thr[t].cache_key, << >>), IdsOf(thr[t].project_hosts)))
               @@ hist
    /\ lock' = IF lock.count <= 1 THEN Unlocked
               ELSE [ lock EXCEPT !.count = @ - 1 ]
    /\ thr' = [thr EXCEPT ![t].pc = "project",
                          ![t].merged = @ \o thr[t].project_hosts,
                          ![t].wrote = Append(@, thr[t].cache_key),
                          ![t].pidx = @ + 1]
    /\ UNCHANGED << passVars, prune_log, cycles >>

InitCycles ==
    /\ entry = "library"
    /\ impl = "data_fetcher"
    /\ instances = DefaultInstances
    /\ cfg = CfgNoUsers
    /\ req = NoRequest
    /\ allowed = None
    /\ session_user = None
    /\ identity = None
    /\ http_status = 0
    /\ envelope = None
    /\ pc = "idle"
    /\ idx = 1
    /\ hosts = << >>
    /\ hosts_type = "list"
    /\ hidx = 0
    /\ error = None
    /\ pidx = 0
    /\ merged = << >>
    /\ hc_hosts = << >>
    /\ cache = << >>
    /\ prune_log = << >>
    /\ result = << >>
    /\ raised = None
    /\ calls = << >>
    /\ own = << >>
    /\ session = NoSession
    /\ detail_log = << >>
    /\ list_n = -1
    /\ hc_log = << >>
    /\ thr = [ t \in Threads |-> IdleThread ]
    /\ lock = Unlocked
    /\ hist = << >>
    /\ cycles = 0

NextCycles ==
    \/ \E t \in Threads : HcCall(t)
    \/ \E t \in Threads : HcReturn(t)
    \/ \E t \in Threads : HcSkip(t)
    \/ \E t \in Threads : HcRequest(t)
    \/ \E t \in Threads : LockAcquire(t)
    \/ \E t \in Threads : ReadPrevious(t)
    \/ \E t \in Threads : WriteCache(t)

SpecCycles == InitCycles /\ [][NextCycles]_vars

-----------------------------------------------------------------------------
(* The entry points.                                                       *)

aggVars == << idx, hostVars, error, hcVars, result, raised, calls, own, session >>

\* mmonit-hub.py, MMonitHandler.do_GET on /api/data
DoGet ==
    /\ pc = "idle"
    /\ entry = "do_GET"
    /\ LET user == require_auth_user(req, cfg)
       IN  IF user = None
           THEN \* do_AUTH_response
                /\ http_status' = 401
                /\ pc' = "done"
                /\ UNCHANGED << identity, allowed >>
           ELSE /\ http_status' = 200
                /\ identity' = user
                /\ allowed' = Some(get_user_tenants(user[1], cfg))
                /\ pc' = "loop"
    /\ UNCHANGED << reqVars, session_user, envelope, aggVars >>

\* mmonit_hub/__init__.py, login_post
LoginPost ==
    /\ pc = "idle"
    /\ entry = "flask"
    /\ req.kind = "form"
    /\ session_user = None
    /\ LET name == req.creds[1]
           user == load_user(cfg, name)
       IN  IF user = None \/ ~verify_password(req.creds[2], user[1].password_hash)
           THEN /\ http_status' = 401
                /\ pc' = "done"
                /\ UNCHANGED session_user
           ELSE \* login_user(user); redirect(url_for("index"))
                /\ session_user' = Some(name)
                /\ http_status' = 302
                /\ UNCHANGED pc
    /\ UNCHANGED << reqVars, identity, envelope, allowed, aggVars >>

\* mmonit_hub/__init__.py, api_data behind @login_required
ApiData ==
    /\ pc = "idle"
    /\ entry = "flask"
    /\ LET user == current_user(cfg, session_user)
       IN  IF user = None
           THEN \* login_manager.unauthorized(): redirect to the login view
                /\ http_status' = 302
                /\ pc' = "done"
                /\ UNCHANGED << identity, allowed >>
           ELSE /\ http_status' = 200
                /\ identity' = Some(user[1].id)
                /\ allowed' = Some(api_data_allowed(user[1]))
                /\ pc' = "loop"
    /\ UNCHANGED << reqVars, session_user, envelope, aggVars >>

\* data_fetcher.py, query_mmonit_data(instances, allowed_tenants) called directly
CallQuery ==
    /\ pc = "idle"
    /\ entry = "library"
    /\ pc' = "loop"
    /\ UNCHANGED << reqVars, authVars, aggVars >>

\* query_mmonit_data(instances, get_user_tenants(username, config))
ResolveAndQuery ==
    /\ pc = "idle"
    /\ entry = "resolve"
    /\ allowed' = Some(get_user_tenants(req.creds[1], cfg))
    /\ pc' = "loop"
    /\ UNCHANGED << reqVars, session_user, identity, http_status, envelope, aggVars >>

\* return result, and the payload the endpoint writes
Return ==
    /\ pc = "return"
    /\ envelope' = IF entry \in { "do_GET", "flask" }
                   THEN Some([ username |-> identity[1], tenants |-> result ])
                   ELSE None
    /\ pc' = "done"
    /\ UNCHANGED << reqVars, session_user, identity, http_status, allowed, aggVars >>

\* which query_mmonit_data an entry point calls
ImplOf(e) ==
    CASE e = "do_GET" -> "standalone"
      [] e = "flask"  -> "mmonit_hub"
      [] OTHER        -> "data_fetcher"

\* the requests a caller sends to an entry point
RequestsOf(e, config) ==
    CASE e = "do_GET" ->
           IF ConfigUsers(config) = << >>
           THEN { r \in HeaderRequests : r.creds \in { << >>, << "alice", "a1" >> } }
           ELSE HeaderRequests
      [] e = "flask" ->
           IF ConfigUsers(config) = << >>
           THEN { NoRequest, [ kind |-> "form", creds |-> << "alice", "a1" >> ] }
           ELSE FormRequests \cup { NoRequest }
      [] e = "resolve" -> NameRequests
      [] OTHER -> { NoRequest }

Init ==
    /\ entry \in { "do_GET", "flask", "library", "resolve" }
    /\ impl = ImplOf(entry)
    /\ instances = DefaultInstances
    /\ cfg \in (IF entry = "library" THEN { CfgNoUsers }
                ELSE IF entry = "resolve" THEN { CfgTeam }
                ELSE Configs)
    /\ req \in RequestsOf(entry, cfg)
    /\ allowed \in (IF entry = "library" THEN AllowedArgs ELSE { None })
    /\ session_user = None
    /\ identity = None
    /\ http_status = 0
    /\ envelope = None
    /\ pc = "idle"
    /\ idx = 1
    /\ hosts = << >>
    /\ hosts_type = "list"
    /\ hidx = 0
    /\ error = None
    /\ pidx = 0
    /\ merged = << >>
    /\ hc_hosts = << >>
    /\ cache = << >>
    /\ prune_log = << >>
    /\ result = << >>
    /\ raised = None
    /\ calls = << >>
    /\ own = << >>
    /\ session = NoSession
    /\ detail_log = << >>
    /\ list_n = -1
    /\ hc_log = << >>
    /\ thr = [ t \in Threads |-> IdleThread ]
    /\ lock = Unlocked
    /\ hist = << >>
    /\ cycles = 0

Next ==
    \/ DoGet
    \/ LoginPost
    \/ ApiData
    \/ CallQuery
    \/ ResolveAndQuery
    \/ NextInstance
    \/ Bootstrap
    \/ Login
    \/ ListHosts
    \/ Detail
    \/ FetchHealthchecksEnter
    \/ HcProjectSkip
    \/ HcProjectFetch
    \/ AppendEntry
    \/ Return

Spec == Init /\ [][Next]_vars

\* One call of data_fetcher.query_mmonit_data run to its end: the thread that
\* runs the pass keeps running, and every outbound call ends (it has a
\* timeout), so a step that is possible is eventually taken.  The call is
\* query_mmonit_data(instances), without a tenant filter.
InitPass == Init /\ entry = "library" /\ allowed = None

NextPass ==
    \/ CallQuery
    \/ NextInstance
    \/ Bootstrap
    \/ Login
    \/ ListHosts
    \/ Detail
    \/ FetchHealthchecksEnter
    \/ HcProjectSkip
    \/ HcProjectFetch
    \/ AppendEntry
    \/ Return

SpecPass == InitPass /\ [][NextPass]_vars /\ WF_vars(NextPass)

-----------------------------------------------------------------------------
(* Properties.                                                             *)

\* The scratch variables of the loop (hosts, list_n, detail_log, hc_log,
\* calls) describe the entry appended last: they are reset only when the
\* loop starts on the next instance it retains.
ScratchIsLast == pc \in { "loop", "return", "done" } /\ result # << >> /\ raised = None
LastEntry == result[Len(result)]

TenantNames(entries) == [ i \in 1..Len(entries) |-> entries[i].tenant ]
InstanceNames == [ i \in 1..Len(instances) |-> instances[i].name ]

\* C1: a call whose allowed_tenants is a list without "*" (the empty list
\* included) returns no entry whose tenant is not in the list.
C1_OnlyAllowedTenants ==
    (allowed # None /\ ~InList("*", allowed[1]))
        => \A i \in 1..Len(result) : InList(result[i].tenant, allowed[1])

\* C2: an entry with an error has no hosts, Healthchecks hosts included.
C2_ErrorMeansNoHosts ==
    \A i \in 1..Len(result) : "error" \in DOMAIN result[i] => result[i].hosts = << >>

\* C3: when the host list succeeded with N hosts the entry has no error, its
\* first N hosts are the listed hosts in order, a detail call was made for
\* each of them, and every host whose detail call returned another status,
\* timed out or did not parse has the placeholder detail.
C3_DetailFailureKeepsHost ==
    (ScratchIsLast /\ list_n >= 0)
        => /\ "error" \notin DOMAIN LastEntry
           /\ Len(LastEntry.hosts) >= list_n
           /\ Len(detail_log) = list_n
           /\ \A i \in 1..list_n :
                /\ LastEntry.hosts[i].id = RawHost(i).id
                /\ calls[3 + i] = << "detail" >> \o RawHost(i).id
                /\ detail_log[i] # "ok" =>
                     /\ Get(LastEntry.hosts[i], "filesystems", << "unset" >>) = << >>
                     /\ Get(LastEntry.hosts[i], "issues", << "unset" >>) = << >>
                     /\ Get(LastEntry.hosts[i], "service_count", -1) = 0
                     /\ Get(LastEntry.hosts[i], "os_name", "unset") = "OS N/A"

\* C3 witness: of two listed hosts the first one's detail call timed out and
\* the second one's succeeded.
C3_Witness ==
    /\ pc = "done"
    /\ list_n = 2
    /\ detail_log = << "timeout", "ok" >>
    /\ LastEntry.hosts[1].os_name = "OS N/A"
    /\ LastEntry.hosts[2].os_name = "FreeBSD"

\* Whether the caller names no configured principal, or (at an endpoint) no
\* entry of that name verifies the password.
NoPrincipal ==
    /\ ConfigUsers(cfg) # << >>
    /\ \/ req.creds = << >>
       \/ FirstUser(cfg.users, req.creds[1]) = 0
       \/ /\ entry \in { "do_GET", "flask" }
          /\ \A i \in 1..Len(cfg.users) :
                cfg.users[i].username = req.creds[1]
                    => ~verify_password(req.creds[2], cfg.users[i].password)

\* C4: with users configured, a caller that matches no principal gets no
\* identity, and the tenants resolved for it yield no entry at all.
C4_UnknownIdentityDenied ==
    NoPrincipal => /\ identity = None
                   /\ envelope = None
                   /\ result = << >>

\* C5: without users every caller of the data endpoint is anonymous and gets
\* the envelope of all configured tenants.
C5_NoUsersMeansAnonymous ==
    (entry \in { "do_GET", "flask" } /\ ConfigUsers(cfg) = << >> /\ pc = "done")
        => /\ envelope # None
           /\ envelope[1].username = "anonymous"
           /\ TenantNames(envelope[1].tenants) = InstanceNames

\* The tenants list configured for the authenticated identity.
PrincipalTenants ==
    Get(cfg.users[FirstUser(cfg.users, identity[1])], "tenants", << >>)

InTenantList(tl, name) == InList("*", tl) \/ InList(name, tl)

\* C6: the envelope of an authenticated caller holds exactly the instances
\* named in its principal's tenants list (all of them only with "*").
C6_EnvelopeScopedToPrincipal ==
    (envelope # None /\ ConfigUsers(cfg) # << >>)
        => \A i \in 1..Len(instances) :
              InList(instances[i].name, TenantNames(envelope[1].tenants))
                  <=> InTenantList(PrincipalTenants, instances[i].name)

\* the username get_user_tenants was called with
ResolvedName == IF entry = "resolve" THEN req.creds[1] ELSE identity[1]

\* C7: for a username that is configured, get_user_tenants returns that
\* principal's tenants list unchanged, whatever the username is.
C7_TenantsVerbatim ==
    (/\ entry \in { "do_GET", "resolve" }
     /\ allowed # None
     /\ FirstUser(ConfigUsers(cfg), ResolvedName) # 0)
        => allowed[1] =
             Get(cfg.users[FirstUser(cfg.users, ResolvedName)], "tenants", << >>)

\* the synthetic hosts of project `proj` in a host list
ErrorHostsOf(hs, proj) ==
    { i \in 1..Len(hs) : hs[i].id = << "hcproj", Get(proj, "name", "project") >> }

\* C8: when fetch_healthchecks_for_tenant is over every project with a key
\* was fetched, and each whose request failed (network error, error status,
\* unparsable or wrongly shaped payload) left exactly one host with led 0
\* and one issue; no failure left the function.
C8_ProjectFailureIsolated ==
    (pc = "append" /\ impl = "data_fetcher" /\ ~HcDisabled(Inst))
        => /\ Len(hc_log) = Len(Projects(Inst))
           /\ \A j \in 1..Len(hc_log) :
                /\ hc_log[j] # "escaped"
                /\ hc_log[j] = "error" =>
                     /\ Cardinality(ErrorHostsOf(hc_hosts, Projects(Inst)[j])) = 1
                     /\ \A k \in ErrorHostsOf(hc_hosts, Projects(Inst)[j]) :
                          hc_hosts[k].led = 0 /\ Len(hc_hosts[k].issues) = 1

\* the secondary fetch of the entry appended last raised, after a host list
\* that succeeded
SecondaryRaised ==
    /\ ScratchIsLast
    /\ list_n >= 0
    /\ hc_log # << >>
    /\ hc_log[Len(hc_log)] = "escaped"

C10_LedInVocabulary ==
    \A i \in 1..Len(result) :
        \A j \in 1..Len(result[i].hosts) :
            /\ "led" \in DOMAIN result[i].hosts[j]
            /\ result[i].hosts[j].led \in { 0, 1, 2 }

-----------------------------------------------------------------------------
(* Properties of the fetch cycles.                                         *)

\* the thread holds the hosts of a payload it accepted: from the request
\* until they are written to the cache
HasProjectHosts(t) == thr[t].pc \in { "acquire", "read", "write" }
LastChecks(t) == thr[t].fetched[Len(thr[t].fetched)].checks
\* the hosts of a list that stand for the check c
HostsOfCheck(hs, c) == { i \in 1..Len(hs) : hs[i].id = << "hc", c.id >> }
\* the status of a check as the payload has it, "" when it has none
RawStatus(c) == IF "status" \in DOMAIN c THEN c.status ELSE ""

\* C11: every host emitted for a check has led 2 when the check's status is
\* "up", led 0 when it is "down", and led 1 for every other or missing status.
C11_StatusToLed ==
    \A t \in Threads :
        HasProjectHosts(t) =>
            \A i \in 1..Len(LastChecks(t)) :
                \A j \in HostsOfCheck(thr[t].project_hosts, LastChecks(t)[i]) :
                    thr[t].project_hosts[j].led =
                        (IF RawStatus(LastChecks(t)[i]) = "up" THEN 2
                         ELSE IF RawStatus(LastChecks(t)[i]) = "down" THEN 0
                         ELSE 1)

\* C11 witness: a project that includes paused checks got the payload with a
\* check of every kind, and a host was emitted for each of the seven.
C11_Witness ==
    \E t \in Threads :
        /\ HasProjectHosts(t)
        /\ LastChecks(t) = ChecksAll
        /\ Len(thr[t].project_hosts) = 7
        /\ thr[t].project_hosts[7].led = 1
        /\ thr[t].project_hosts[1].led = 2

\* the include_paused flag as the project's configuration has it
FlagOf(proj) == "include_paused" \in DOMAIN proj /\ proj.include_paused
\* whether a check is to be emitted for a project
Wanted(c, proj) == RawStatus(c) # "paused" \/ FlagOf(proj)
\* the accepted payloads of the call that hold the check c and emit it
EmittingPayloads(t, c) ==
    { g \in 1..Len(thr[t].fetched) :
        /\ \E i \in 1..Len(thr[t].fetched[g].checks) : thr[t].fetched[g].checks[i].id = c.id
        /\ Wanted(c, Projects(thr[t].inst)[thr[t].fetched[g].pidx]) }
\* whether a cached host stands for a paused check
IsPausedHost(h) == h.issues # << >> /\ h.issues[1].status = "PAUSED"

\* C12: a paused check is among the hosts of its project, in the index
\* written to the cache and in the returned list if and only if the project
\* sets include_paused; a check with any other status always is.
C12_PausedOnlyWhenIncluded ==
    /\ \A t \in Threads :
          /\ HasProjectHosts(t) =>
                \A i \in 1..Len(LastChecks(t)) :
                    LET c == LastChecks(t)[i]
                    IN  /\ (HostsOfCheck(thr[t].project_hosts, c) # {}) = Wanted(c, Proj(t))
                        /\ (<< "hc", c.id >> \in DOMAIN thr[t].host_index)
                              = Wanted(c, Proj(t))
          /\ (thr[t].pc = "done" /\ thr[t].raised = "") =>
                \A g \in 1..Len(thr[t].fetched) :
                    \A i \in 1..Len(thr[t].fetched[g].checks) :
                        LET c == thr[t].fetched[g].checks[i]
                        IN  Cardinality(HostsOfCheck(thr[t].out, c))
                              = Cardinality(EmittingPayloads(t, c))
    /\ \A k \in DOMAIN cache :
          \A id \in DOMAIN cache[k] :
              IsPausedHost(cache[k][id]) => k[2][2][4] = "1"

\* C12 witness: both projects of t1 got the payload with the paused check c3;
\* the returned list has it once (from the project that includes paused
\* checks), and so has that project's cache entry only.
C12_Witness ==
    \E t \in Threads :
        /\ thr[t].pc = "done"
        /\ thr[t].inst = Inst1
        /\ Len(thr[t].fetched) = 2
        /\ thr[t].fetched[1].checks = ChecksAll
        /\ thr[t].fetched[2].checks = ChecksAll
        /\ Cardinality(HostsOfCheck(thr[t].out, CheckPaused)) = 1
        /\ Cardinality(HostsOfCheck(thr[t].out, CheckDown)) = 2
        /\ \E k \in DOMAIN cache : << "hc", "c3" >> \in DOMAIN cache[k]
        /\ \E k \in DOMAIN cache : << "hc", "c3" >> \notin DOMAIN cache[k]

\* whether the instance's configuration switches the secondary source off
NotConfigured(instance) ==
    \/ "healthchecks" \notin DOMAIN instance
    \/ ~instance.healthchecks.enabled
    \/ instance.healthchecks.projects = << >>
\* whether the project's configuration has an API key
HasKey(proj) == "api_key" \in DOMAIN proj /\ proj.api_key # ""
RECURSIVE KeyedNames(_)
\* the names of the projects with an API key, in configuration order
KeyedNames(projs) ==
    IF projs = << >> THEN << >>
    ELSE (IF HasKey(Head(projs)) THEN << Head(projs).name >> ELSE << >>)
         \o KeyedNames(Tail(projs))
RECURSIVE ContributedHosts(_, _, _)
\* how many hosts the projects contributed according to the log of the
\* call: one per failed request, those of the payload per accepted one
ContributedHosts(t, log, nfetched) ==
    IF log = << >> THEN 0
    ELSE LET rest == SubSeq(log, 1, Len(log) - 1)
             kind == log[Len(log)]
         IN  IF kind = "error" THEN 1 + ContributedHosts(t, rest, nfetched)
             ELSE IF kind = "ok"
             THEN Cardinality({ i \in 1..Len(thr[t].fetched[nfetched].checks) :
                      Wanted(thr[t].fetched[nfetched].checks[i],
                             Projects(thr[t].inst)[thr[t].fetched[nfetched].pidx]) })
                  + ContributedHosts(t, rest, nfetched - 1)
             ELSE ContributedHosts(t, rest, nfetched)

\* C13: a call for an instance without healthchecks block, with a block that
\* is not enabled or with no projects returns the empty list, having issued
\* no request and written no cache entry; in any other call a project
\* without API key issues no request and contributes no host, and every
\* project with a key is still requested, in order.
C13_DisabledOrKeylessIssuesNoRequest ==
    \A t \in Threads :
        (thr[t].pc = "done" /\ thr[t].raised = "") =>
            IF NotConfigured(thr[t].inst)
            THEN /\ thr[t].out = << >>
                 /\ thr[t].calls = << >>
                 /\ thr[t].wrote = << >>
            ELSE /\ thr[t].calls = KeyedNames(thr[t].inst.healthchecks.projects)
                 /\ Len(thr[t].log) = Len(thr[t].inst.healthchecks.projects)
                 /\ \A i \in 1..Len(thr[t].log) :
                        (thr[t].log[i] = "skipped")
                            = ~HasKey(thr[t].inst.healthchecks.projects[i])
                 /\ Len(thr[t].out) = ContributedHosts(t, thr[t].log, Len(thr[t].fetched))

\* C13 witness: while the cache holds an entry, a call for the instance whose
\* block is not enabled has returned; and a call for t1 has returned after
\* requesting the projects before and after the one without key.
C13_Witness ==
    /\ cache # << >>
    /\ thr[1].pc = "done" /\ thr[1].inst = InstOff
    /\ thr[2].pc = "done" /\ thr[2].inst = Inst1
    /\ thr[2].log = << "ok", "skipped", "ok" >>
    /\ thr[2].calls = << "A", "B" >>

\* the id sets the prune lines printed for the key k report, oldest first
PruneEvents(k) ==
    LET OfKey(e) == e.key = k
        lines == SelectSeq(prune_log, OfKey)
    IN  [ i \in 1..Len(lines) |-> lines[i].removed ]
RECURSIVE ExpectedPrunes(_)
\* for the id sets written to a key, oldest first: the non-empty sets of ids
\* that one write had and the next had not
ExpectedPrunes(written) ==
    IF Len(written) <= 1 THEN << >>
    ELSE LET n == Len(written)
             gone == written[n - 1] \ written[n]
         IN  ExpectedPrunes(SubSeq(written, 1, n - 1))
             \o (IF gone # {} THEN << gone >> ELSE << >>)
\* a thread has printed its prune line and not yet written the entry
MidUpdate == \E t \in Threads : thr[t].pc = "write"

\* C14: between updates, the cache entry of a key holds exactly the ids of
\* the update written last, and the prune lines of the key are, in order,
\* the non-empty sets of ids each update dropped from the entry before it.
C14_CacheHoldsLastFetch ==
    ~MidUpdate =>
        /\ DOMAIN cache = DOMAIN hist
        /\ \A k \in DOMAIN hist :
              /\ DOMAIN cache[k] = hist[k][Len(hist[k])]
              /\ PruneEvents(k) = ExpectedPrunes(hist[k])

\* C14 witness: a key was written twice, the second payload lacked four
\* checks of the first, and one prune line reports these four ids.
C14_Witness ==
    /\ ~MidUpdate
    /\ \E k \in DOMAIN hist :
          /\ Len(hist[k]) = 2
          /\ Cardinality(hist[k][1] \ hist[k][2]) = 4
          /\ Len(prune_log) = 1
          /\ prune_log[1].key = k
          /\ Cardinality(prune_log[1].removed) = 4
          /\ << "hc", "c2" >> \in prune_log[1].removed
          /\ << "hc", "c2" >> \notin DOMAIN cache[k]

\* the tags of a project's configuration, as a set
TagSet(proj) ==
    IF "tags" \in DOMAIN proj THEN { proj.tags[i] : i \in 1..Len(proj.tags) } ELSE {}
\* whether the projects two threads are fetching agree on tenant name,
\* project name, tag set, include-paused flag and API base
SameFiveValues(t, u) ==
    /\ thr[t].inst.name = thr[u].inst.name
    /\ Proj(t).name = Proj(u).name
    /\ TagSet(Proj(t)) = TagSet(Proj(u))
    /\ FlagOf(Proj(t)) = FlagOf(Proj(u))
    /\ ApiBase(Proj(t)) = ApiBase(Proj(u))

\* C15: two projects that agree on tenant name, project name, tag set,
\* include-paused flag and API base have the same cache key, whatever their
\* API keys are.
C15_KeyIgnoresApiKey ==
    \A t, u \in Threads :
        (HasProjectHosts(t) /\ HasProjectHosts(u) /\ SameFiveValues(t, u))
            => thr[t].cache_key = thr[u].cache_key

\* the thread is inside the `with _HEALTHCHECK_CACHE_LOCK` section
InSection(t) == thr[t].pc \in { "read", "write" }

\* C16: two updates are never inside the read-compare-write section at the
\* same time, and an update about to write has read the entry it replaces:
\* `previous` is still the cache entry of its key and `removed_ids` are the
\* ids of that entry which its own hosts lack.
C16_SameKeyUpdatesSerialized ==
    /\ \A t, u \in Threads : (t # u /\ InSection(t)) => ~InSection(u)
    /\ \A t \in Threads :
          thr[t].pc = "write" =>
              /\ thr[t].previous = Get(cache, thr[t].cache_key, << >>)
              /\ thr[t].removed_ids =
                    DOMAIN Get(cache, thr[t].cache_key, << >>) \ DOMAIN thr[t].host_index

\* C16 witness: one thread is about to write the entry of a key while the
\* other thread waits at the lock with a different set of hosts for the
\* same key.
C16_Witness ==
    \E t, u \in Threads :
        /\ thr[t].pc = "write"
        /\ thr[u].pc = "acquire"
        /\ thr[t].cache_key = thr[u].cache_key
        /\ lock.owner = t
        /\ IdsOf(thr[u].project_hosts) # IdsOf(thr[t].project_hosts)

\* C17 as claimed: a thread waiting for the lock can enter while a thread
\* updating a different key is inside the section.
C17_DifferentKeysDoNotBlock ==
    \A t, u \in Threads :
        (thr[t].pc = "acquire" /\ InSection(u) /\ thr[t].cache_key # thr[u].cache_key)
            => ENABLED LockAcquire(t)

\* C17 as amended: the one lock serializes the updates of all keys; a
\* waiting thread can enter exactly when no other thread is inside the
\* section, whichever keys the two are updating.
C17_OneLockForAllKeys ==
    \A t \in Threads :
        thr[t].pc = "acquire" =>
            ((ENABLED LockAcquire(t)) = (\A u \in Threads \ { t } : ~InSection(u)))

\* C17 witness: a thread waits with hosts for one key while the other thread
\* is inside the section for a different key.
C17_Witness ==
    \E t, u \in Threads :
        /\ thr[t].pc = "acquire"
        /\ InSection(u)
        /\ thr[t].cache_key # thr[u].cache_key
        /\ ~ENABLED LockAcquire(t)

-----------------------------------------------------------------------------
(* Properties of the aggregation pass, continued.                          *)

RECURSIVE RetainedNames(_)
\* the names of the instances the tenant filter retains, in their order
RetainedNames(insts) ==
    IF insts = << >> THEN << >>
    ELSE (IF TenantSkipped(allowed, Head(insts).name) THEN << >>
          ELSE << Head(insts).name >>)
         \o RetainedNames(Tail(insts))

\* C18: whenever the loop is between two instances, and when it is over, the
\* tenant names of the result are the names of the instances gone through so
\* far that the filter retains, in configuration order, each once.
C18_ConfigurationOrder ==
    pc \in { "loop", "return", "done" }
        => TenantNames(result) = RetainedNames(SubSeq(instances, 1, idx - 1))

\* C18 witness: the pass is over, the first tenant failed and the second
\* succeeded, and the result has them in configuration order.
C18_Witness ==
    /\ pc = "done"
    /\ Len(result) = 2
    /\ TenantNames(result) = << "t1", "t2" >>
    /\ "error" \in DOMAIN result[1]
    /\ "error" \notin DOMAIN result[2]

\* The entry of an instance computed from the instance and the outcomes of
\* its own requests alone: first the primary source, then the projects.
ReplayPrimary(variant, instance, outs) ==
    LET failed(e, n) == [ err |-> Some(e), hosts |-> << >>, used |-> n ]
    IN  IF outs[1].kind = "raise" THEN failed(ExceptionError(outs[1]), 1)
        ELSE IF outs[2].kind = "raise" THEN failed(ExceptionError(outs[2]), 2)
        ELSE IF outs[2].status # 200 THEN failed(LoginError(outs[2].status), 2)
        ELSE IF outs[3].kind = "raise" THEN failed(ExceptionError(outs[3]), 3)
        ELSE IF outs[3].status # 200 THEN failed(ApiError(outs[3].status), 3)
        ELSE IF ~outs[3].parses THEN failed(<< BadJsonText >>, 3)
        ELSE IF RecordsType(outs[3].body) = "dict" THEN failed(<< NotAHostText(variant) >>, 3)
        ELSE LET records == Get(outs[3].body, "records", << >>)
             IN  [ err |-> None,
                   hosts |-> [ i \in 1..Len(records) |->
                                 DetailApplied(variant, instance.url, records[i],
                                               outs[3 + i]) ],
                   used |-> 3 + Len(records) ]

RECURSIVE ReplayProjects(_, _)
ReplayProjects(projs, outs) ==
    IF projs = << >> THEN [ kind |-> "ok", text |-> "", hosts |-> << >> ]
    ELSE IF ~HasKey(Head(projs)) THEN ReplayProjects(Tail(projs), outs)
    ELSE LET r == ProjectFetch(Head(projs), Head(outs))
             rest == ReplayProjects(Tail(projs), Tail(outs))
         IN  IF r.kind = "escaped" THEN r
             ELSE IF rest.kind = "escaped" THEN rest
             ELSE [ kind |-> "ok", text |-> "", hosts |-> r.hosts \o rest.hosts ]

ReplayEntry(variant, instance, outs) ==
    LET primary == ReplayPrimary(variant, instance, outs)
        secondary == IF NotConfigured(instance)
                     THEN [ kind |-> "ok", text |-> "", hosts |-> << >> ]
                     ELSE ReplayProjects(instance.healthchecks.projects,
                                         SubSeq(outs, primary.used + 1, Len(outs)))
        hcs == IF secondary.kind = "escaped" THEN << MergeErrorHost(secondary.text) >>
               ELSE secondary.hosts
    IN  IF variant = "data_fetcher"
        THEN IF primary.err # None
             THEN [ tenant |-> instance.name, url |-> instance.url,
                    error |-> primary.err[1], hosts |-> hcs ]
             ELSE [ tenant |-> instance.name, url |-> instance.url,
                    hosts |-> primary.hosts \o hcs ]
        ELSE IF primary.err # None
             THEN [ tenant |-> instance.name, url |-> instance.url,
                    error |-> primary.err[1], hosts |-> << >> ]
             ELSE [ tenant |-> instance.name, url |-> instance.url,
                    hosts |-> primary.hosts ]

\* the configured instance of a tenant name
InstanceNamed(name) ==
    instances[CHOOSE i \in 1..Len(instances) : instances[i].name = name]

UpstreamServices(i) == DetailData(RawHost(i)).records.host.services
\* whether the upstream record of a service has a usage-percent statistic
HasUsagePercent(service) ==
    /\ "statistics" \in DOMAIN service
    /\ \E k \in 1..Len(service.statistics) : service.statistics[k].type = 18

\* C20: for every host whose detail call succeeded, a service of its payload
\* has an entry in the host's filesystems exactly when its upstream record
\* has a statistic of type 18, and no entry has usage_percent None.
C20_FilesystemIffUsagePercent ==
    ScratchIsLast =>
        \A i \in 1..Len(detail_log) :
            detail_log[i] = "ok" =>
                LET fs == LastEntry.hosts[i].filesystems
                    services == UpstreamServices(i)
                IN  /\ \A j \in 1..Len(services) :
                          (\E k \in 1..Len(fs) : fs[k].name = services[j].name)
                              = HasUsagePercent(services[j])
                    /\ \A k \in 1..Len(fs) : fs[k].usage_percent # None

\* C20 witness: the detail payload of h1 had the filesystems "root" (with a
\* usage-percent statistic) and "tmp" (without), and the host lists "root" only.
C20_Witness ==
    /\ ScratchIsLast
    /\ Len(detail_log) >= 1
    /\ detail_log[1] = "ok"
    /\ Len(LastEntry.hosts[1].filesystems) = 1
    /\ LastEntry.hosts[1].filesystems[1].name = "root"
    /\ LastEntry.hosts[1].filesystems[1].usage_percent = Some(40)
    /\ LastEntry.hosts[1].service_count = 3

\* the rows of a list of service rows that carry the name of `service`
RowsOf(rows, service) == { k \in 1..Len(rows) : rows[k].name = service.name }

\* C21: for every host whose detail call succeeded, a service of its payload
\* has a row in the host's issues exactly when its led is 0 or 1, and, in the
\* two query_mmonit_data that build services_detail (data_fetcher.py and
\* mmonit_hub/__init__.py), every service has exactly one row there.
C21_IssuesIffNotGreen ==
    ScratchIsLast =>
        \A i \in 1..Len(detail_log) :
            detail_log[i] = "ok" =>
                LET host == LastEntry.hosts[i]
                    services == UpstreamServices(i)
                IN  \A j \in 1..Len(services) :
                        /\ (RowsOf(host.issues, services[j]) # {})
                               = (services[j].led \in {0, 1})
                        /\ impl # "standalone" =>
                               Cardinality(RowsOf(host.services_detail, services[j])) = 1

\* C21 witness: the payload of h1 had "root" (led 2), "nginx" (led 0) and
\* "tmp" (led 1); the issues are nginx and tmp, services_detail has all three.
C21_Witness ==
    /\ ScratchIsLast
    /\ impl = "data_fetcher"
    /\ Len(detail_log) >= 1
    /\ detail_log[1] = "ok"
    /\ Len(LastEntry.hosts[1].issues) = 2
    /\ LastEntry.hosts[1].issues[1].name = "nginx"
    /\ LastEntry.hosts[1].issues[2].name = "tmp"
    /\ Len(LastEntry.hosts[1].services_detail) = 3
    /\ LastEntry.hosts[1].services_detail[1].led = 2

\* the login POST of the instance answered, with a status other than 200
LoginRejected ==
    /\ Len(calls) >= 2
    /\ calls[2] = << "login" >>
    /\ own[2].kind = "response"
    /\ own[2].status # 200

\* the kinds of the requests issued for the instance, in order
CallKinds == [ k \in 1..Len(calls) |-> calls[k][1] ]

\* C22: when the login POST of a tenant answers with a status other than 200
\* the tenant's error is "Login failed: HTTP <status>" and neither the host
\* list nor a host detail is requested for the tenant.
C22_LoginFailureStopsPrimary ==
    (ScratchIsLast /\ LoginRejected)
        => /\ "error" \in DOMAIN LastEntry
           /\ LastEntry.error = << "Login failed: HTTP ", Str(own[2].status) >>
           /\ \A k \in 1..Len(calls) : CallKinds[k] \notin { "list", "detail" }

\* C22 witness: the login of the tenant answered 403 and its entry says so.
C22_Witness ==
    /\ ScratchIsLast
    /\ LoginRejected
    /\ own[2].status = 403
    /\ LastEntry.error = << "Login failed: HTTP ", "403" >>
    /\ CallKinds[1] = "bootstrap"
    /\ CallKinds[2] = "login"

\* The failure class of the k-th request of the instance, "none" when the
\* request is not a tenant-level failure.
FailureClassAt(k) ==
    IF CallKinds[k] \notin { "bootstrap", "login", "list" } THEN "none"
    ELSE IF own[k].kind = "raise"
    THEN (IF own[k].exc = "Timeout" THEN "timeout"
          ELSE IF own[k].exc = "ConnectionError" THEN "connect"
          ELSE "other")
    ELSE IF CallKinds[k] = "login" /\ own[k].status # 200 THEN "login"
    ELSE IF CallKinds[k] = "list" /\ own[k].status # 200 THEN "api"
    ELSE IF CallKinds[k] = "list" /\ ~own[k].parses THEN "other"
    ELSE IF CallKinds[k] = "list" /\ RecordsType(own[k].body) = "dict" THEN "other"
    ELSE "none"

\* the requests of the instance that failed at tenant level (at most one)
FailedCalls == { k \in 1..Len(calls) : FailureClassAt(k) # "none" }
FailureClass == IF FailedCalls = {} THEN "none" ELSE FailureClassAt(CHOOSE k \in FailedCalls : TRUE)
FailureStatus == IF FailedCalls = {} THEN 0 ELSE own[CHOOSE k \in FailedCalls : TRUE].status

\* the error string the claim gives to a failure class
ClassError(c, status) ==
    CASE c = "timeout" -> << "Connection timeout" >>
      [] c = "connect" -> << "Connection failed" >>
      [] c = "login"   -> << "Login failed: HTTP ", Str(status) >>
      [] c = "api"     -> << "API error: HTTP ", Str(status) >>
      [] OTHER         -> << >>

FourClasses == { "timeout", "connect", "login", "api" }

\* C23: a timeout, a connection failure, a rejected login and a failed host
\* list each put their own string into the tenant's error, and an error that
\* is one of the four strings stands for the class that failed.
C23_FailureClassesDistinct ==
    ScratchIsLast =>
        /\ FailureClass \in FourClasses =>
              /\ "error" \in DOMAIN LastEntry
              /\ LastEntry.error = ClassError(FailureClass, FailureStatus)
        /\ \A c \in FourClasses : \A st \in { 403, 404, 500 } :
              ("error" \in DOMAIN LastEntry /\ LastEntry.error = ClassError(c, st))
                  => (FailureClass = c /\ (c \in { "login", "api" } => FailureStatus = st))

\* C23 witness: the first tenant could not be connected to, the host list of
\* the second one answered 500.
C23_Witness ==
    /\ ScratchIsLast
    /\ Len(result) = 2
    /\ result[1].error = << "Connection failed" >>
    /\ FailureClass = "api"
    /\ LastEntry.error = << "API error: HTTP ", "500" >>

\* the positions in `calls` of the requests of a kind
CallsOfKind(kind) == { k \in 1..Len(calls) : CallKinds[k] = kind }
\* every request of kind `a` was issued before every request of kind `b`
Precedes(a, b) == \A j \in CallsOfKind(a) : \A k \in CallsOfKind(b) : j < k
\* the requests made to the monitoring API of the instance
PrimaryKinds == { "bootstrap", "login", "list", "detail" }

\* C24: for each tenant of a pass one Session object is made; the bootstrap
\* GET is the first request, at most one login POST and one host-list GET
\* follow it in that order, every detail GET comes after the host list (which
\* it needs), and each of these requests goes through that one session.
C24_OneSessionOneLogin ==
    ScratchIsLast =>
        /\ session.made = 1
        /\ CallsOfKind("bootstrap") = { 1 }
        /\ Cardinality(CallsOfKind("login")) <= 1
        /\ Cardinality(CallsOfKind("list")) <= 1
        /\ Precedes("bootstrap", "login")
        /\ Precedes("login", "list")
        /\ Precedes("list", "detail")
        /\ CallsOfKind("list") # {} => CallsOfKind("login") # {}
        /\ CallsOfKind("detail") # {} => CallsOfKind("list") # {}
        /\ \A k \in 1..Len(calls) : CallKinds[k] \in PrimaryKinds => session.via[k] = 1

\* C24 witness: a tenant with two hosts: bootstrap, login, list and the two
\* details, five requests on the one session.
C24_Witness ==
    /\ ScratchIsLast
    /\ list_n = 2
    /\ SubSeq(CallKinds, 1, 5) = << "bootstrap", "login", "list", "detail", "detail" >>
    /\ session.made = 1
    /\ SubSeq(session.via, 1, 5) = << 1, 1, 1, 1, 1 >>

\* C25: whatever the upstream systems do, no exception leaves
\* query_mmonit_data: the pass ends by returning its result list.
C25_NeverRaises == raised = None

\* C26: no request of an instance is sent twice in a pass, each request has
\* the one outcome it got, and once a bootstrap, login or list request failed
\* no further request goes to the monitoring API of the instance.
C26_SingleAttempt ==
    /\ Len(own) = Len(calls)
    /\ \A j, k \in 1..Len(calls) : j < k => calls[j] # calls[k]
    /\ \A j \in FailedCalls : \A k \in 1..Len(calls) :
          k > j => CallKinds[k] \notin PrimaryKinds

\* C26 witness: the host list timed out and the request of project A failed:
\* five requests, each sent once, the pass went on to the entry.
C26_Witness ==
    /\ ScratchIsLast
    /\ CallKinds = << "bootstrap", "login", "list", "checks", "checks" >>
    /\ own[3].exc = "Timeout"
    /\ own[4].kind = "raise"
    /\ LastEntry.error = << "Connection timeout" >>

\* C27: a call of query_mmonit_data ends, whichever of its requests fail: it
\* reaches its return statement, or the exception of C25 leaves it.
C27_PassTerminates == <>(pc = "done")

\* C27 witness: a pass over two tenants is over; the first tenant failed at
\* its host list, one detail call of the second one timed out.
C27_Witness ==
    /\ pc = "done"
    /\ raised = None
    /\ Len(result) = 2
    /\ "error" \in DOMAIN result[1]
    /\ list_n = 2
    /\ detail_log = << "ok", "timeout" >>

\* the step is a project request of thread t that ended in the except clause
FetchFailed(t) ==
    /\ Len(thr[t].log') = Len(thr[t].log) + 1
    /\ thr[t].log'[Len(thr[t].log')] = "error"
\* the cache key of the project whose request thread t made last
LastKey(t) ==
    LET projs == Projects(thr[t].inst)
        proj == projs[thr[t].pidx - 1]
    IN  _project_cache_key(thr[t].inst, proj, ApiBase(proj))
\* the ids filed in the cache, under any key
CachedIds == UNION { DOMAIN cache[k] : k \in DOMAIN cache }

\* C28: a project request that fails changes neither the cache nor the prune
\* lines, so the entry of its key stays the snapshot of the last fetch that
\* succeeded, and no synthetic error host is ever filed in the cache.
C28_FailedFetchKeepsCache ==
    [][ /\ \A t \in Threads :
              FetchFailed(t) => /\ cache' = cache
                                /\ prune_log' = prune_log
                                /\ thr[t].wrote' = thr[t].wrote
        /\ \A id \in CachedIds' : id[1] # "hcproj" ]_vars

\* C28 witness: the request of project A of t1 has just failed in a second
\* fetch cycle; the entry of its key still holds the seven checks of the
\* first cycle and no prune line was printed.
C28_Witness ==
    \E t \in Threads :
        /\ thr[t].inst = Inst1
        /\ thr[t].pidx = 2
        /\ thr[t].log = << "error" >>
        /\ LastKey(t) \in DOMAIN cache
        /\ DOMAIN cache[LastKey(t)] = hist[LastKey(t)][1]
        /\ Cardinality(DOMAIN cache[LastKey(t)]) >= 4
        /\ prune_log = << >>

\* the checks of the payloads the current call of thread t received
CurrentCheckIds(t) ==
    UNION { { << "hc", thr[t].fetched[i].checks[j].id >> :
                j \in 1..Len(thr[t].fetched[i].checks) } : i \in 1..Len(thr[t].fetched) }

\* C29: the list a call of fetch_healthchecks_for_tenant returns is the one
\* the instance's configuration and the responses to the requests of this
\* call determine, whatever the cache held: every check host in it is a
\* check of a payload of this call.
C29_OutputIgnoresCache ==
    \A t \in Threads :
        (thr[t].pc = "done" /\ thr[t].raised = "") =>
            /\ thr[t].out = IF NotConfigured(thr[t].inst) THEN << >>
                            ELSE ReplayProjects(thr[t].inst.healthchecks.projects,
                                                thr[t].outs).hosts
            /\ \A i \in 1..Len(thr[t].out) :
                  thr[t].out[i].id[1] = "hc" => thr[t].out[i].id \in CurrentCheckIds(t)

\* C29 witness: an earlier call filed the check c2 under a key; a later call
\* for the same project, whose payload lacked c2, has returned its hosts, and
\* c2 is not among them.
C29_Witness ==
    \E t \in Threads : \E k \in DOMAIN hist :
        /\ thr[t].pc = "done"
        /\ thr[t].wrote # << >>
        /\ thr[t].wrote[1] = k
        /\ Len(hist[k]) = 2
        /\ << "hc", "c2" >> \in hist[k][1]
        /\ << "hc", "c2" >> \notin IdsOf(thr[t].out)
        /\ << "hc", "c1" >> \in IdsOf(thr[t].out)
        /\ Len(thr[t].fetched[1].checks) = 3

\* the entries of the users list that carry the caller's username, and those
\* of them whose password hash the caller's password verifies against
NamedEntries ==
    { i \in 1..Len(ConfigUsers(cfg)) : ConfigUsers(cfg)[i].username = req.creds[1] }
VerifiedEntries ==
    { i \in NamedEntries : verify_password(req.creds[2], ConfigUsers(cfg)[i].password) }
TenantsOfEntry(i) == Get(ConfigUsers(cfg)[i], "tenants", << >>)

\* C30: a caller who authenticated with a username and a password is never
\* granted the tenant list of an entry of that username whose password the
\* caller did not give, unless it is also the list of an entry it did give.
C30_TenantsOfVerifiedEntry ==
    (/\ entry \in { "do_GET", "flask" }
     /\ identity # None
     /\ allowed # None
     /\ req.kind \in { "basic", "form" }
     /\ Len(req.creds) = 2)
        => \A i \in NamedEntries \ VerifiedEntries :
               allowed[1] = TenantsOfEntry(i)
                   => \E j \in VerifiedEntries : TenantsOfEntry(j) = allowed[1]

====
